---- MODULE Spec2Model ----
(***************************************************************************)
(* State-machine model of the bun-serverless gateway: the service registry *)
(* (ProcessManager), the proxy router, the management API and the activity *)
(* monitor, with the pm2 supervisor and the backends as the environment.   *)
(*                                                                         *)
(* JavaScript runs one handler at a time: a handler runs from one await    *)
(* that suspends it to the next.  Every action below is one such run.  An  *)
(* await on a promise that is already settled resumes before any other     *)
(* event is delivered; it is kept as a separate step only where the        *)
(* registry is read on one side of it and used on the other.               *)
(*                                                                         *)
(* Time is counted in ticks of TickMs milliseconds.                        *)
(***************************************************************************)
EXTENDS Integers, Sequences, FiniteSets, TLC

VARIABLES
    services,   \* ProcessManager.services: the Map, in insertion order
    config,     \* ConfigManager.config: the loaded snapshot
    now,        \* Date.now(), in ticks
    pm2,        \* the supervisor: calls issued and calls in flight, per name
    requests,   \* Router.handleRequest invocations
    mgmt,       \* ManagementAPI invocations and the gateway's own answers
    cleanups,   \* ActivityMonitor.performCleanup invocations
    probes,     \* health probes of performHealthChecks in flight, per name
    healthRuns, \* performHealthChecks invocations so far
    lastProbe,  \* HealthCheckResult.status of the latest monitor probe
    url,        \* the request's method and URL, the upstream URL built from it
    gateway,    \* the monitor's timers, the manager's callbacks, the pm2
                \* connection and the process
    shutdowns,  \* ServerlessGateway.shutdown invocations
    regCalls    \* calls made on the registry or the configuration directly,
                \* with what they met

vars == <<services, config, now, pm2, requests, mgmt, cleanups, probes,
          healthRuns, lastProbe, url, gateway, shutdowns, regCalls>>

-----------------------------------------------------------------------------
(* Bounds of the model *)

\* handler invocations in one behaviour: requests, management actions,
\* cleanup runs and health runs together
MaxHandlers == 2
\* the last tick of the clock
MaxTime == 3
\* the longest request pathname, in characters
MaxPathLen == 5

-----------------------------------------------------------------------------
(* Program constants; one tick of the clock is 10000 ms *)

\* ServiceConfigSchema.timeout, min(10000): the smallest timeout
MinTimeout == 1
\* GlobalConfigSchema.defaultTimeout, default(300000)
DefaultTimeout == 30
\* AbortSignal.timeout(30000) of the upstream fetch
ProxyTimeout == 3
\* an optional field of ServiceInstance (pid, startTime) that is not set
Undefined == -1

\* names a request or a management action may carry: two that the
\* configuration can hold and one that it never holds
ServiceNames == {"a", "b"}
Names == ServiceNames \cup {"x"}

-----------------------------------------------------------------------------
(* ProcessManager: the registry operations, as functions of the Map S *)

has(S, name) == \E i \in DOMAIN S : S[i].name = name

indexOf(S, name) == CHOOSE i \in DOMAIN S : S[i].name = name

getService(S, name) == S[indexOf(S, name)]

\* registerService without the test for an existing record
registerServiceOverwrites(S, name, cfg, t) ==
    LET instance == [name |-> name, config |-> cfg, status |-> "stopped",
                     pid |-> Undefined, port |-> cfg.port, lastActivity |-> t,
                     startTime |-> Undefined, requestCount |-> 0,
                     errorCount |-> 0]
    IN  IF has(S, name)
        THEN [S EXCEPT ![indexOf(S, name)] = instance]
        ELSE Append(S, instance)

registerService(S, name, cfg, t) ==
    IF has(S, name)
    THEN S
    ELSE Append(S, [name |-> name, config |-> cfg, status |-> "stopped",
                    pid |-> Undefined, port |-> cfg.port, lastActivity |-> t,
                    startTime |-> Undefined, requestCount |-> 0,
                    errorCount |-> 0])

\* startService and stopService, lines 65-68 and 113-116: the call throws
notRegistered(S, name) == ~has(S, name)

\* startService with the early return for a record that is starting left out
startServiceCallsUnlessRunning(S, name) ==
    getService(S, name).status # "running"

\* startService, lines 70-72: the call goes on to pm2.start
startServiceCalls(S, name) ==
    getService(S, name).status \notin {"running", "starting"}

\* startService with the status set ahead of the early return
startServiceBeginAlways(S, name) ==
    [S EXCEPT ![indexOf(S, name)].status = "starting"]

\* startService, lines 70-75: the registry when the call returns early or
\* suspends at pm2.start
startServiceBegin(S, name) ==
    IF startServiceCalls(S, name)
    THEN [S EXCEPT ![indexOf(S, name)].status = "starting"]
    ELSE S

\* startService, lines 96-98, after pm2.start succeeded
startServiceResolve(S, name, t) ==
    [S EXCEPT ![indexOf(S, name)].status = "running",
              ![indexOf(S, name)].startTime = t,
              ![indexOf(S, name)].lastActivity = t]

\* the catch block of startService without the increment of errorCount
startServiceRejectUncounted(S, name) ==
    [S EXCEPT ![indexOf(S, name)].status = "error"]

\* startService, lines 103-104, after pm2.start failed
startServiceReject(S, name) ==
    [S EXCEPT ![indexOf(S, name)].status = "error",
              ![indexOf(S, name)].errorCount = @ + 1]

\* stopService with the early return for a record that is stopping left out
stopServiceCallsUnlessStopped(S, name) ==
    getService(S, name).status # "stopped"

\* stopService, lines 118-120: the call goes on to pm2.stop
stopServiceCalls(S, name) ==
    getService(S, name).status \notin {"stopped", "stopping"}

\* stopService, lines 118-123: the registry when the call returns early or
\* suspends at pm2.stop
stopServiceBegin(S, name) ==
    IF stopServiceCalls(S, name)
    THEN [S EXCEPT ![indexOf(S, name)].status = "stopping"]
    ELSE S

\* stopService without the clearing of startTime
stopServiceResolveKeepsStartTime(S, name) ==
    [S EXCEPT ![indexOf(S, name)].status = "stopped",
              ![indexOf(S, name)].pid = Undefined]

\* stopService taking the stopped record out of the Map
stopServiceResolveDeletes(S, name) ==
    SelectSeq(S, LAMBDA service : service.name # name)

\* stopService, lines 129-131, after pm2.stop and pm2.delete succeeded
stopServiceResolve(S, name) ==
    [S EXCEPT ![indexOf(S, name)].status = "stopped",
              ![indexOf(S, name)].pid = Undefined,
              ![indexOf(S, name)].startTime = Undefined]

\* the catch block of stopService marking every record of the Map
stopServiceRejectAll(S, name) ==
    [i \in DOMAIN S |->
        [S[i] EXCEPT !.status = "error",
                     !.errorCount = IF S[i].name = name THEN @ + 1 ELSE @]]

\* the catch block of stopService without the assignment of the status
stopServiceRejectKeepsStatus(S, name) ==
    [S EXCEPT ![indexOf(S, name)].errorCount = @ + 1]

\* stopService, lines 135-136, after pm2.stop or pm2.delete failed
stopServiceReject(S, name) ==
    [S EXCEPT ![indexOf(S, name)].status = "error",
              ![indexOf(S, name)].errorCount = @ + 1]

\* updateActivity without the increment of requestCount
updateActivityStampOnly(S, name, t) ==
    IF has(S, name)
    THEN [S EXCEPT ![indexOf(S, name)].lastActivity = t]
    ELSE S

\* updateActivity without the refresh of lastActivity
updateActivityCountOnly(S, name, t) ==
    IF has(S, name)
    THEN [S EXCEPT ![indexOf(S, name)].requestCount = @ + 1]
    ELSE S

updateActivity(S, name, t) ==
    IF has(S, name)
    THEN [S EXCEPT ![indexOf(S, name)].lastActivity = t,
                   ![indexOf(S, name)].requestCount = @ + 1]
    ELSE S

\* getInactiveServices with the cutoff included
getInactiveServicesFromCutoff(S, timeoutMs, t) ==
    {S[i].name : i \in {j \in DOMAIN S :
        S[j].status = "running" /\ S[j].lastActivity <= t - timeoutMs}}

\* getInactiveServices without the test of the status
getInactiveServicesAnyStatus(S, timeoutMs, t) ==
    {S[i].name : i \in {j \in DOMAIN S : S[j].lastActivity < t - timeoutMs}}

\* the names of the records getInactiveServices(timeoutMs) returns at time t
getInactiveServices(S, timeoutMs, t) ==
    {S[i].name : i \in {j \in DOMAIN S :
        S[j].status = "running" /\ S[j].lastActivity < t - timeoutMs}}

-----------------------------------------------------------------------------
(* The supervisor.  pm2.stop and pm2.delete, awaited one after the other    *)
(* with the record in status stopping throughout, are one call here.        *)

NoCalls ==
    [starts |-> 0, stops |-> 0, startsInFlight |-> 0, stopsInFlight |-> 0,
     startsFailed |-> 0]

\* a call ("start" or "stop") is issued
pm2Invoke(P, name, call) ==
    IF call = "start"
    THEN [P EXCEPT ![name].starts = @ + 1, ![name].startsInFlight = @ + 1]
    ELSE [P EXCEPT ![name].stops = @ + 1, ![name].stopsInFlight = @ + 1]

\* a call returns, with success or with failure
pm2Return(P, name, call, ok) ==
    IF call = "start"
    THEN [P EXCEPT ![name].startsInFlight = @ - 1,
                   ![name].startsFailed = IF ok THEN @ ELSE @ + 1]
    ELSE [P EXCEPT ![name].stopsInFlight = @ - 1]

-----------------------------------------------------------------------------
(* Configuration and initial states *)

ServiceConfig(name, timeout) ==
    [port |-> IF name = "a" THEN 3001 ELSE 3002, timeout |-> timeout]

\* the configuration file with the given services
ConfigFile(names) ==
    [global |-> [defaultTimeout |-> DefaultTimeout],
     services |-> [n \in names |-> ServiceConfig(n, IF n = "a" THEN MinTimeout
                                                             ELSE MinTimeout + 1)]]

\* the configurations the file may hold: "a" always, "b" possibly
ConfigFiles == {ConfigFile({"a"}), ConfigFile({"a", "b"})}

\* ServiceConfigSchema, line 192: a service parsed from the file; a timeout
\* that the file omits is Undefined there and gets the default of the schema
parseService(raw) ==
    [raw EXCEPT !.timeout = IF @ = Undefined THEN DefaultTimeout ELSE @]

\* GlobalConfigSchema, line 203
parseGlobal(raw) ==
    [raw EXCEPT !.defaultTimeout = IF @ = Undefined THEN DefaultTimeout ELSE @]

\* ConfigManager.loadConfig, lines 29-34: ConfigSchema.parse of the file
loadConfig(raw) ==
    [global |-> parseGlobal(raw.global),
     services |-> [n \in DOMAIN raw.services |-> parseService(raw.services[n])]]

\* a configuration file that gives no timeout for "a", the smallest one for
\* "b", and defaultTimeout d (Undefined: none)
RawFile(d) ==
    [global |-> [defaultTimeout |-> d],
     services |-> [n \in ServiceNames |->
                      ServiceConfig(n, IF n = "a" THEN Undefined ELSE MinTimeout)]]

\* ServerlessGateway.start, lines 67-71: every configured service is registered
RECURSIVE registerAll(_, _, _)
registerAll(S, cfg, order) ==
    IF order = <<>>
    THEN S
    ELSE registerAll(IF Head(order) \in DOMAIN cfg.services
                     THEN registerService(S, Head(order),
                                          cfg.services[Head(order)], 0)
                     ELSE S,
                     cfg, Tail(order))

NewRequest(name) ==
    [pc |-> "new", name |-> name, response |-> 0, forwardedAs |-> "none",
     at |-> Undefined]

\* a request for /api/services/<name>/<action>, by POST
NewAction(name, action) ==
    [pc |-> "new", name |-> name, action |-> action, response |-> 0,
     method |-> "POST"]

Actions == {"start", "stop", "restart", "health", "bogus"}

\* queue: the records of the snapshot the loop has not reached yet;
\* due, seen, stopped: what the run met and did, kept for the properties
NewCleanup(due) ==
    [pc |-> "new", name |-> "", queue |-> <<>>, due |-> due, seen |-> {},
     stopped |-> {}]

\* what a health probe can meet at the backend
ProbeOutcomes == {"2xx", "3xx", "5xx", "timeout", "refused"}

NoUrl == [pc |-> "none", pathname |-> <<>>, query |-> "", target |-> <<>>]

\* the gateway after ServerlessGateway.start: pm2 connected (line 54), the
\* monitor's timers set (line 57), the process alive
Up == [timers |-> TRUE, connected |-> TRUE, disconnects |-> 0, exited |-> FALSE]

\* the handlers and the monitor of a gateway that has served nothing yet
Idle ==
    /\ now = 0
    /\ requests = <<>>
    /\ mgmt = <<>>
    /\ cleanups = <<>>
    /\ probes = [n \in ServiceNames |-> 0]
    /\ healthRuns = 0
    /\ lastProbe = "none"
    /\ gateway = Up
    /\ shutdowns = <<>>
    /\ regCalls = <<>>

\* the gateway after ServerlessGateway.start, with a configuration file that
\* holds service "a"
Init ==
    /\ config = ConfigFile({"a"})
    /\ services = registerAll(<<>>, config, <<"a", "b">>)
    /\ pm2 = [n \in Names |-> NoCalls]
    /\ Idle
    /\ url = NoUrl

\* the registry and the supervisor of a gateway with services "a" and "b"
\* configured and both started at tick 0 through
\* POST /api/services/<name>/start, the handlers of that finished
Warm ==
    /\ config = ConfigFile({"a", "b"})
    /\ services = startServiceResolve(
                      startServiceResolve(registerAll(<<>>, config, <<"a", "b">>),
                                          "a", 0),
                      "b", 0)
    /\ pm2 = [n \in Names |->
                IF n \in ServiceNames THEN [NoCalls EXCEPT !.starts = 1]
                                      ELSE NoCalls]

InitWarm ==
    /\ Warm
    /\ Idle
    /\ url = NoUrl

\* the gateway started with such a file, "a" and "b" started at tick 0
InitDefault ==
    /\ config \in {loadConfig(RawFile(d)) :
                       d \in {Undefined, MinTimeout, MinTimeout + 1}}
    /\ services = startServiceResolve(
                      startServiceResolve(registerAll(<<>>, config, <<"a", "b">>),
                                          "a", 0),
                      "b", 0)
    /\ pm2 = [n \in Names |->
                IF n \in ServiceNames THEN [NoCalls EXCEPT !.starts = 1]
                                      ELSE NoCalls]
    /\ Idle
    /\ url = NoUrl

\* handler invocations so far
Handlers ==
    Len(requests) + Len(mgmt) + Len(cleanups) + healthRuns + Len(shutdowns)
        + Len(regCalls)

-----------------------------------------------------------------------------
(* Router.handleRequest and Router.ensureServiceRunning *)

\* ensureServiceRunning from line 122 on, for request r of R, with the
\* record present in S
EnsureStart(r, R, S) ==
    IF getService(S, R[r].name).status # "running"
    THEN /\ services' = startServiceBegin(S, R[r].name)
         /\ IF startServiceCalls(S, R[r].name)
            THEN /\ pm2' = pm2Invoke(pm2, R[r].name, "start")
                 /\ requests' = [R EXCEPT ![r].pc = "pm2.start"]
            ELSE /\ pm2' = pm2
                 /\ requests' = [R EXCEPT ![r].pc = "settle"]
    ELSE /\ services' = S
         /\ pm2' = pm2
         /\ requests' = [R EXCEPT ![r].pc = "ensured"]

\* a request for /<name>/... arrives: handleRequest up to its first
\* suspension inside ensureServiceRunning
RequestArrives(name) ==
    /\ Handlers < MaxHandlers
    /\ LET R == Append(requests, NewRequest(name))
           r == Len(R)
       IN  IF has(services, name)
           THEN EnsureStart(r, R, services)
           ELSE IF name \in DOMAIN config.services
                THEN /\ services' = registerService(services, name,
                                                    config.services[name], now)
                     /\ requests' = [R EXCEPT ![r].pc = "registered"]
                     /\ pm2' = pm2
                ELSE /\ requests' = [R EXCEPT ![r].pc = "done",
                                               ![r].response = 503]
                     /\ UNCHANGED <<services, pm2>>
    /\ UNCHANGED <<config, now, mgmt, cleanups, probes, healthRuns, lastProbe, url,
                   gateway, shutdowns, regCalls>>

\* ensureServiceRunning resumes after `await registerService` (line 119)
RequestRegistered(r) ==
    /\ requests[r].pc = "registered"
    /\ EnsureStart(r, requests, services)
    /\ UNCHANGED <<config, now, mgmt, cleanups, probes, healthRuns, lastProbe, url,
                   gateway, shutdowns, regCalls>>

\* the return of pm2.start with a failed start not caught by
\* ensureServiceRunning as a failure: the request goes on to the delay
RequestStartFailureGoesOn(r, ok) ==
    /\ requests[r].pc = "pm2.start"
    /\ pm2' = pm2Return(pm2, requests[r].name, "start", ok)
    /\ services' = IF ok
                   THEN startServiceResolve(services, requests[r].name, now)
                   ELSE startServiceReject(services, requests[r].name)
    /\ requests' = [requests EXCEPT ![r].pc = "settle"]
    /\ UNCHANGED <<config, now, mgmt, cleanups, probes, healthRuns, lastProbe, url,
                   gateway, shutdowns, regCalls>>

\* pm2.start returns to the startService call this request made
RequestStartReturns(r, ok) ==
    /\ requests[r].pc = "pm2.start"
    /\ pm2' = pm2Return(pm2, requests[r].name, "start", ok)
    /\ IF ok
       THEN /\ services' = startServiceResolve(services, requests[r].name, now)
            /\ requests' = [requests EXCEPT ![r].pc = "settle"]
       ELSE /\ services' = startServiceReject(services, requests[r].name)
            /\ requests' = [requests EXCEPT ![r].pc = "done", ![r].response = 503]
    /\ UNCHANGED <<config, now, mgmt, cleanups, probes, healthRuns, lastProbe, url,
                   gateway, shutdowns, regCalls>>

\* the settle delay of ensureServiceRunning elapses (lines 126-127)
RequestSettled(r) ==
    /\ requests[r].pc = "settle"
    /\ requests' = [requests EXCEPT ![r].pc = "ensured"]
    /\ UNCHANGED <<services, config, now, pm2, mgmt, cleanups, probes,
                   healthRuns, lastProbe, url,
                   gateway, shutdowns, regCalls>>

\* handleRequest resumes with the record: lines 33-68, up to the fetch
RequestForwards(r) ==
    /\ requests[r].pc = "ensured"
    /\ services' = updateActivity(services, requests[r].name, now)
    /\ requests' = [requests EXCEPT
                        ![r].pc = "fetch",
                        ![r].at = now,
                        ![r].forwardedAs = getService(services, requests[r].name).status]
    /\ UNCHANGED <<config, now, pm2, mgmt, cleanups, probes, healthRuns,
                   lastProbe, url,
                   gateway, shutdowns, regCalls>>

\* the end of the fetch with a catch block that marks the service failed
RequestFetchFailureMarksError(r, outcome) ==
    /\ requests[r].pc = "fetch"
    /\ requests' = [requests EXCEPT
                        ![r].pc = "done",
                        ![r].response = CASE outcome = "response" -> 200
                                          [] outcome = "timeout" -> 504
                                          [] OTHER -> 500]
    /\ services' = IF outcome = "response"
                   THEN services
                   ELSE startServiceReject(services, requests[r].name)
    /\ UNCHANGED <<config, now, pm2, mgmt, cleanups, probes,
                   healthRuns, lastProbe, url,
                   gateway, shutdowns, regCalls>>

\* the upstream fetch ends: a response, the 30 s timeout, or a transport error
RequestFetchEnds(r, outcome) ==
    /\ requests[r].pc = "fetch"
    /\ requests' = [requests EXCEPT
                        ![r].pc = "done",
                        ![r].response = CASE outcome = "response" -> 200
                                          [] outcome = "timeout" -> 504
                                          [] OTHER -> 500]
    /\ UNCHANGED <<services, config, now, pm2, mgmt, cleanups, probes,
                   healthRuns, lastProbe, url,
                   gateway, shutdowns, regCalls>>

-----------------------------------------------------------------------------
(* ManagementAPI.handleServiceAction *)

\* the action is answered with a success body: Response without a status
actionReplied(M, m) == [M EXCEPT ![m].pc = "done", ![m].response = 200]

\* the catch block with the status of the Response left out
actionCaughtAsOk(M, m) == [M EXCEPT ![m].pc = "done", ![m].response = 200]

\* lines 161-168: the catch block answers an exception
actionCaught(M, m) == [M EXCEPT ![m].pc = "done", ![m].response = 500]

\* lines 155-159: the action is none of start, stop, restart, health
actionInvalid(M, m) == [M EXCEPT ![m].pc = "done", ![m].response = 400]

\* the startService call of `start` and of `restart` (lines 119, 138), for
\* action m of M
ActionStart(m, M) ==
    IF notRegistered(services, M[m].name)
    THEN /\ mgmt' = actionCaught(M, m)
         /\ UNCHANGED <<services, pm2>>
    ELSE /\ services' = startServiceBegin(services, M[m].name)
         /\ IF startServiceCalls(services, M[m].name)
            THEN /\ pm2' = pm2Invoke(pm2, M[m].name, "start")
                 /\ mgmt' = [M EXCEPT ![m].pc = "pm2.start"]
            ELSE /\ pm2' = pm2
                 /\ mgmt' = actionReplied(M, m)

\* the stopService call of `stop` and of `restart` (lines 128, 136)
ActionStop(m, M) ==
    IF notRegistered(services, M[m].name)
    THEN /\ mgmt' = actionCaught(M, m)
         /\ UNCHANGED <<services, pm2>>
    ELSE /\ services' = stopServiceBegin(services, M[m].name)
         /\ IF stopServiceCalls(services, M[m].name)
            THEN /\ pm2' = pm2Invoke(pm2, M[m].name, "stop")
                 /\ mgmt' = [M EXCEPT ![m].pc = "pm2.stop"]
            ELSE /\ pm2' = pm2
                 /\ mgmt' = IF M[m].action = "stop"
                            THEN actionReplied(M, m)
                            ELSE [M EXCEPT ![m].pc = "delay"]

\* POST /api/services/<name>/<action> arrives: handleServiceAction up to
\* its first suspension
ActionArrives(name, action) ==
    /\ Handlers < MaxHandlers
    /\ LET M == Append(mgmt, NewAction(name, action))
           m == Len(M)
       IN  CASE action = "start" -> ActionStart(m, M)
             [] action \in {"stop", "restart"} -> ActionStop(m, M)
             [] action = "health" ->
                  /\ mgmt' = IF has(services, name)
                                /\ getService(services, name).status = "running"
                             THEN [M EXCEPT ![m].pc = "probe"]
                             ELSE actionReplied(M, m)
                  /\ UNCHANGED <<services, pm2>>
             [] OTHER ->
                  /\ mgmt' = actionInvalid(M, m)
                  /\ UNCHANGED <<services, pm2>>
    /\ UNCHANGED <<config, now, requests, cleanups, probes, healthRuns, lastProbe, url,
                   gateway, shutdowns, regCalls>>

\* ManagementAPI.handleRequest, lines 31-56: GET /api/services/<name>/<action>
\* is none of the GET routes and is not a POST: the answer is 404
ServiceGetArrives(name, action) ==
    /\ Handlers < MaxHandlers
    /\ mgmt' = Append(mgmt, [NewAction(name, action) EXCEPT
                                 !.method = "GET", !.pc = "done",
                                 !.response = 404])
    /\ UNCHANGED <<services, config, now, pm2, requests, cleanups, probes,
                   healthRuns, lastProbe, url, gateway, shutdowns, regCalls>>

\* pm2.start returns to the startService call of this action
ActionStartReturns(m, ok) ==
    /\ mgmt[m].pc = "pm2.start"
    /\ pm2' = pm2Return(pm2, mgmt[m].name, "start", ok)
    /\ IF ok
       THEN /\ services' = startServiceResolve(services, mgmt[m].name, now)
            /\ mgmt' = actionReplied(mgmt, m)
       ELSE /\ services' = startServiceReject(services, mgmt[m].name)
            /\ mgmt' = actionCaught(mgmt, m)
    /\ UNCHANGED <<config, now, requests, cleanups, probes, healthRuns, lastProbe, url,
                   gateway, shutdowns, regCalls>>

\* the return of stopService with `restart` going on to its delay and its
\* start after a failed stop as well
ActionStopReturnsRestartGoesOn(m, ok) ==
    /\ mgmt[m].pc = "pm2.stop"
    /\ pm2' = pm2Return(pm2, mgmt[m].name, "stop", ok)
    /\ services' = IF ok THEN stopServiceResolve(services, mgmt[m].name)
                         ELSE stopServiceReject(services, mgmt[m].name)
    /\ mgmt' = IF mgmt[m].action = "restart"
               THEN [mgmt EXCEPT ![m].pc = "delay"]
               ELSE IF ok THEN actionReplied(mgmt, m) ELSE actionCaught(mgmt, m)
    /\ UNCHANGED <<config, now, requests, cleanups, probes, healthRuns, lastProbe, url,
                   gateway, shutdowns, regCalls>>

\* pm2.stop and pm2.delete return to the stopService call of this action
ActionStopReturns(m, ok) ==
    /\ mgmt[m].pc = "pm2.stop"
    /\ pm2' = pm2Return(pm2, mgmt[m].name, "stop", ok)
    /\ IF ok
       THEN /\ services' = stopServiceResolve(services, mgmt[m].name)
            /\ mgmt' = IF mgmt[m].action = "stop"
                       THEN actionReplied(mgmt, m)
                       ELSE [mgmt EXCEPT ![m].pc = "delay"]
       ELSE /\ services' = stopServiceReject(services, mgmt[m].name)
            /\ mgmt' = actionCaught(mgmt, m)
    /\ UNCHANGED <<config, now, requests, cleanups, probes, healthRuns, lastProbe, url,
                   gateway, shutdowns, regCalls>>

\* the one-second delay of `restart` elapses: line 138
ActionRestartDelayEnds(m) ==
    /\ mgmt[m].pc = "delay"
    /\ ActionStart(m, mgmt)
    /\ UNCHANGED <<config, now, requests, cleanups, probes, healthRuns, lastProbe, url,
                   gateway, shutdowns, regCalls>>

\* the probe of the `health` action ends
ActionProbeEnds(m) ==
    /\ mgmt[m].pc = "probe"
    /\ mgmt' = actionReplied(mgmt, m)
    /\ UNCHANGED <<services, config, now, pm2, requests, cleanups, probes,
                   healthRuns, lastProbe, url,
                   gateway, shutdowns, regCalls>>

-----------------------------------------------------------------------------
(* ActivityMonitor.performCleanup *)

\* line 58
effectiveTimeout(service, cfg) ==
    IF service.config.timeout # 0
    THEN service.config.timeout
    ELSE cfg.global.defaultTimeout

\* lines 56-61: the loop calls stopService on this record
cleanupStops(S, name, cfg, t) ==
    /\ getService(S, name).status = "running"
    /\ name \in getInactiveServices(S, effectiveTimeout(getService(S, name), cfg), t)

\* how many records at the head of the queue the loop passes over
RECURSIVE passedOver(_, _, _, _)
passedOver(S, queue, cfg, t) ==
    IF queue = <<>> \/ cleanupStops(S, Head(queue), cfg, t)
    THEN 0
    ELSE 1 + passedOver(S, Tail(queue), cfg, t)

\* the tick of the latest request forwarded to the service so far
lastRequest(name) ==
    LET at == {requests[r].at : r \in {q \in DOMAIN requests :
                  requests[q].name = name /\ requests[q].at # Undefined}}
    IN  IF at = {} THEN Undefined ELSE CHOOSE t \in at : \A u \in at : u <= t

\* the record as the loop finds it at time t
observed(S, name, t) ==
    [name |-> name, status |-> getService(S, name).status, at |-> t,
     lastActivity |-> getService(S, name).lastActivity,
     startTime |-> getService(S, name).startTime,
     lastRequest |-> lastRequest(name)]

\* the for loop of performCleanup over `queue`, up to its next suspension
\* (the await of stopService) or its end, for run c of C with the registry S
CleanupLoop(c, C, S, P, queue) ==
    LET k == passedOver(S, queue, config, now)
        reached == {queue[i] : i \in 1..(IF k < Len(queue) THEN k + 1 ELSE k)}
        seen == C[c].seen \cup {observed(S, n, now) : n \in reached}
    IN  IF k = Len(queue)
        THEN /\ cleanups' = [C EXCEPT ![c].pc = "done", ![c].name = "",
                                      ![c].queue = <<>>, ![c].seen = seen]
             /\ services' = S
             /\ pm2' = P
        ELSE /\ cleanups' = [C EXCEPT ![c].pc = "pm2.stop",
                                      ![c].name = queue[k + 1],
                                      ![c].queue = SubSeq(queue, k + 2, Len(queue)),
                                      ![c].seen = seen,
                                      ![c].stopped = @ \cup {queue[k + 1]}]
             /\ services' = stopServiceBegin(S, queue[k + 1])
             /\ pm2' = pm2Invoke(P, queue[k + 1], "stop")

\* the cleanup timer fires: performCleanup up to its first suspension
CleanupStarts ==
    /\ Handlers < MaxHandlers
    /\ LET snapshot == [i \in DOMAIN services |-> services[i].name]
           due == {services[i].name : i \in {j \in DOMAIN services :
                     /\ services[j].status = "running"
                     /\ now - services[j].lastActivity > services[j].config.timeout}}
       IN  CleanupLoop(Len(cleanups) + 1, Append(cleanups, NewCleanup(due)),
                       services, pm2, snapshot)
    /\ UNCHANGED <<config, now, requests, mgmt, probes, healthRuns, lastProbe, url,
                   gateway, shutdowns, regCalls>>

\* the return of the loop's stopService call with the exception of a failed
\* stop not caught inside the loop: the run ends there
CleanupStopReturnsEndsOnFailure(c, ok) ==
    /\ cleanups[c].pc = "pm2.stop"
    /\ CleanupLoop(c, cleanups,
                   IF ok THEN stopServiceResolve(services, cleanups[c].name)
                         ELSE stopServiceReject(services, cleanups[c].name),
                   pm2Return(pm2, cleanups[c].name, "stop", ok),
                   IF ok THEN cleanups[c].queue ELSE <<>>)
    /\ UNCHANGED <<config, now, requests, mgmt, probes, healthRuns, lastProbe, url,
                   gateway, shutdowns, regCalls>>

\* pm2.stop and pm2.delete return to the stopService call of the loop, and
\* the loop goes on
CleanupStopReturns(c, ok) ==
    /\ cleanups[c].pc = "pm2.stop"
    /\ CleanupLoop(c, cleanups,
                   IF ok THEN stopServiceResolve(services, cleanups[c].name)
                         ELSE stopServiceReject(services, cleanups[c].name),
                   pm2Return(pm2, cleanups[c].name, "stop", ok),
                   cleanups[c].queue)
    /\ UNCHANGED <<config, now, requests, mgmt, probes, healthRuns, lastProbe, url,
                   gateway, shutdowns, regCalls>>

-----------------------------------------------------------------------------
(* ActivityMonitor.performHealthChecks and ProcessManager.healthCheck *)

\* healthCheck without the test for a TimeoutError
healthCheckNoTimeout(outcome) ==
    IF outcome = "2xx" THEN "healthy" ELSE "unhealthy"

\* healthCheck, lines 164-179: the status of the result, for a record that
\* is running when the probe is sent
healthCheck(outcome) ==
    CASE outcome = "2xx" -> "healthy"
      [] outcome = "timeout" -> "timeout"
      [] OTHER -> "unhealthy"

\* healthCheck, lines 165-178: the error of the result: none, the status
\* code of the response, or the message of the exception
healthCheckError(outcome) ==
    CASE outcome = "2xx" -> "none"
      [] outcome \in {"3xx", "5xx"} -> "HTTP " \o outcome
      [] OTHER -> "message"

\* performHealthChecks with a result that is not healthy marking the record
healthResultMarksError(S, name, status) ==
    IF status = "healthy"
    THEN S
    ELSE [S EXCEPT ![indexOf(S, name)].errorCount = @ + 1,
                   ![indexOf(S, name)].status = "error"]

\* performHealthChecks, lines 87-94: what the monitor does with a result
healthResult(S, name, status) ==
    IF status = "healthy"
    THEN S
    ELSE [S EXCEPT ![indexOf(S, name)].errorCount = @ + 1]

\* the health timer fires: one probe is sent to every running record
HealthStarts ==
    /\ Handlers < MaxHandlers
    /\ healthRuns' = healthRuns + 1
    /\ probes' = [n \in ServiceNames |->
                    IF has(services, n) /\ getService(services, n).status = "running"
                    THEN probes[n] + 1
                    ELSE probes[n]]
    /\ UNCHANGED <<services, config, now, pm2, requests, mgmt, cleanups,
                   lastProbe, url,
                   gateway, shutdowns, regCalls>>

\* one probe ends
HealthProbeEnds(name, outcome) ==
    /\ probes[name] > 0
    /\ probes' = [probes EXCEPT ![name] = @ - 1]
    /\ lastProbe' = healthCheck(outcome)
    /\ services' = healthResult(services, name, healthCheck(outcome))
    /\ UNCHANGED <<config, now, pm2, requests, mgmt, cleanups, healthRuns, url,
                   gateway, shutdowns, regCalls>>

-----------------------------------------------------------------------------
(* ConfigManager.watchConfigFile *)

\* the file changed and holds a valid configuration
ConfigReloads(file) ==
    /\ file # config
    /\ config' = file
    /\ UNCHANGED <<services, now, pm2, requests, mgmt, cleanups, probes,
                   healthRuns, lastProbe, url,
                   gateway, shutdowns, regCalls>>

-----------------------------------------------------------------------------
(* The clock *)

Tick ==
    /\ now < MaxTime
    /\ now' = now + 1
    /\ UNCHANGED <<services, config, pm2, requests, mgmt, cleanups, probes,
                   healthRuns, lastProbe, url,
                   gateway, shutdowns, regCalls>>

-----------------------------------------------------------------------------
(* Router.handleRequest, lines 17-49: the upstream URL.  A pathname is a    *)
(* sequence of characters, "/" among them.                                  *)

PathChars == {"/", "a", "f"}

Pathnames ==
    {p \in UNION {[1..k -> PathChars] : k \in 1..MaxPathLen} : p[1] = "/"}

\* the part of the request URL from "?" on
Queries == {"", "?", "?x=1"}

\* url.search: empty when the URL has no query or an empty one
search(query) == IF query = "?" THEN "" ELSE query

\* pathname.split('/')
RECURSIVE split(_)
split(s) ==
    IF \A i \in DOMAIN s : s[i] # "/"
    THEN <<s>>
    ELSE LET i == CHOOSE k \in DOMAIN s :
                    s[k] = "/" /\ \A j \in 1..(k - 1) : s[j] # "/"
         IN  <<SubSeq(s, 1, i - 1)>> \o split(SubSeq(s, i + 1, Len(s)))

\* the test of filter(Boolean) on a string
nonEmpty(segment) == segment # <<>>

\* line 22
segmentsOf(pathname) == SelectSeq(split(pathname), nonEmpty)

\* segments.join('/')
RECURSIVE join(_)
join(segments) ==
    IF segments = <<>>
    THEN <<>>
    ELSE IF Len(segments) = 1
         THEN segments[1]
         ELSE segments[1] \o <<"/">> \o join(Tail(segments))

\* lines 44-47
targetPath(pathname) ==
    LET segments == segmentsOf(pathname)
        strippedPath == <<"/">> \o join(Tail(segments))
    IN  IF /\ strippedPath = <<"/">>
           /\ pathname[Len(pathname)] # "/"
           /\ Len(segments) = 1
        THEN <<"/">>
        ELSE strippedPath

\* line 49: http://localhost:<port><targetPath><search>
targetUrl(port, pathname, query) ==
    [host |-> "localhost", port |-> port, path |-> targetPath(pathname),
     search |-> search(query)]

\* the service a segment names: the one-character names are services
nameOf(segment) ==
    IF segment = <<"a">> THEN "a" ELSE IF segment = <<"b">> THEN "b" ELSE "x"

\* a request for a URL arrives while the service it names is running:
\* the upstream URL of the fetch
UrlForwards ==
    /\ url.pc = "new"
    /\ LET segments == segmentsOf(url.pathname)
           name == IF segments = <<>> THEN "x" ELSE nameOf(segments[1])
       IN  url' = IF has(services, name)
                     /\ getService(services, name).status = "running"
                  THEN [url EXCEPT !.pc = "fetch",
                                   !.target = targetUrl(getService(services, name).port,
                                                        url.pathname, url.query)]
                  ELSE [url EXCEPT !.pc = "done"]
    /\ UNCHANGED <<services, config, now, pm2, requests, mgmt, cleanups, probes,
                   healthRuns, lastProbe,
                   gateway, shutdowns, regCalls>>

\* the warm gateway and one request URL
InitUrl ==
    /\ Warm
    /\ Idle
    /\ url \in {[pc |-> "new", pathname |-> p, query |-> q, target |-> <<>>] :
                    p \in Pathnames, q \in Queries}

-----------------------------------------------------------------------------
(* ServerlessGateway.shutdown, the handler of SIGINT and SIGTERM *)

\* the names of the records in status running, in the order of the Map
RECURSIVE runningServices(_)
runningServices(S) ==
    IF S = <<>>
    THEN <<>>
    ELSE (IF Head(S).status = "running" THEN <<Head(S).name>> ELSE <<>>)
         \o runningServices(Tail(S))

\* lines 192-195: stopService is called on each of `names`, each call up to
\* its await of pm2.stop: the registry after the calls
RECURSIVE stopAllBegin(_, _)
stopAllBegin(S, names) ==
    IF names = <<>>
    THEN S
    ELSE stopAllBegin(stopServiceBegin(S, Head(names)), Tail(names))

\* the supervisor after those calls
RECURSIVE stopAllInvoke(_, _, _)
stopAllInvoke(P, S, names) ==
    IF names = <<>>
    THEN P
    ELSE stopAllInvoke(IF stopServiceCalls(S, Head(names))
                       THEN pm2Invoke(P, Head(names), "stop")
                       ELSE P,
                       stopServiceBegin(S, Head(names)), Tail(names))

\* running: the records in status running at the signal; invoked: those
\* stopService was called on; pending: those whose stopService has not
\* completed
NewShutdown(running) ==
    [pc |-> "new", running |-> running, invoked |-> {}, pending |-> {}]

\* line 206, ProcessManager.disconnect: pm2.disconnect is called if the
\* connection is up; if it is not, disconnect returns and the process exits
\* (line 209)
Disconnect(s, H) ==
    IF gateway.connected
    THEN /\ shutdowns' = [H EXCEPT ![s].pc = "pm2.disconnect"]
         /\ gateway' = [gateway EXCEPT !.timers = FALSE, !.disconnects = @ + 1]
    ELSE /\ shutdowns' = [H EXCEPT ![s].pc = "done"]
         /\ gateway' = [gateway EXCEPT !.timers = FALSE, !.exited = TRUE]

\* a signal arrives: shutdown up to its first suspension
Signal ==
    /\ ~gateway.exited
    /\ Handlers < MaxHandlers
    /\ LET names == runningServices(services)
           running == {names[i] : i \in DOMAIN names}
           H == Append(shutdowns, NewShutdown(running))
           s == Len(H)
       IN  /\ services' = stopAllBegin(services, names)
           /\ pm2' = stopAllInvoke(pm2, services, names)
           /\ IF names = <<>>
              THEN Disconnect(s, H)
              ELSE /\ shutdowns' = [H EXCEPT ![s].pc = "stops",
                                             ![s].invoked = running,
                                             ![s].pending = running]
                   /\ gateway' = [gateway EXCEPT !.timers = FALSE]
    /\ UNCHANGED <<config, now, requests, mgmt, cleanups, probes, healthRuns,
                   lastProbe, url, regCalls>>

\* pm2.stop and pm2.delete return to one stopService call of the shutdown;
\* after the last one Promise.all resolves and shutdown goes on to disconnect
ShutdownStopReturns(s, name, ok) ==
    /\ ~gateway.exited
    /\ shutdowns[s].pc = "stops"
    /\ name \in shutdowns[s].pending
    /\ pm2' = pm2Return(pm2, name, "stop", ok)
    /\ services' = IF ok THEN stopServiceResolve(services, name)
                         ELSE stopServiceReject(services, name)
    /\ LET H == [shutdowns EXCEPT ![s].pending = @ \ {name}]
       IN  IF H[s].pending = {}
           THEN Disconnect(s, H)
           ELSE /\ shutdowns' = H
                /\ gateway' = gateway
    /\ UNCHANGED <<config, now, requests, mgmt, cleanups, probes, healthRuns,
                   lastProbe, url, regCalls>>

\* pm2.disconnect returns, with success or not, and the process exits
\* (part_001:34-41, lib.ts:208-209)
ShutdownDisconnected(s, ok) ==
    /\ ~gateway.exited
    /\ shutdowns[s].pc = "pm2.disconnect"
    /\ shutdowns' = [shutdowns EXCEPT ![s].pc = "done"]
    /\ gateway' = [gateway EXCEPT !.connected = IF ok THEN FALSE ELSE @,
                                  !.exited = TRUE]
    /\ UNCHANGED <<services, config, now, pm2, requests, mgmt, cleanups, probes,
                   healthRuns, lastProbe, url, regCalls>>

-----------------------------------------------------------------------------
(* ProcessManager.registerService called on the registry directly, as       *)
(* ServerlessGateway.start calls it for the services of a configuration     *)

\* the configurations a call may pass
RegisterConfigs ==
    {ServiceConfig(n, t) : n \in ServiceNames, t \in {MinTimeout, MinTimeout + 1}}

\* registerService(name, cfg) is called; existed and before are kept for
\* the properties
RegisterCalled(name, cfg) ==
    /\ Handlers < MaxHandlers
    /\ services' = registerService(services, name, cfg, now)
    /\ regCalls' = Append(regCalls, [name |-> name, config |-> cfg,
                                     existed |-> has(services, name)])
    /\ UNCHANGED <<config, now, pm2, requests, mgmt, cleanups, probes,
                   healthRuns, lastProbe, url, gateway, shutdowns>>

-----------------------------------------------------------------------------
(* ProcessManager.getInactiveServices called on the registry directly       *)

\* the arguments a call may pass
QueryTimeouts == {MinTimeout, MinTimeout + 1}

\* getInactiveServices(timeoutMs) is called; the registry and the time of
\* the call are kept for the properties
InactiveQueried(timeoutMs) ==
    /\ Handlers < MaxHandlers
    /\ regCalls' = Append(regCalls,
                          [timeoutMs |-> timeoutMs, at |-> now,
                           registry |-> services,
                           result |-> getInactiveServices(services, timeoutMs, now)])
    /\ UNCHANGED <<services, config, now, pm2, requests, mgmt, cleanups, probes,
                   healthRuns, lastProbe, url, gateway, shutdowns>>

-----------------------------------------------------------------------------
(* ServerlessGateway.handleRequest: where a request goes.  Here a pathname  *)
(* is a sequence of "/" and of whole segments.                              *)

\* the most segments of a pathname
MaxSegments == 4

Segments == {"api", "services", "a", "start", ".well-known", "favicon.ico"}

Methods == {"GET", "POST", "OPTIONS"}

\* the pathname with the given segments, with or without a trailing slash
pathOf(segs, trailing) ==
    <<"/">> \o join([i \in DOMAIN segs |-> <<segs[i]>>])
            \o (IF trailing /\ segs # <<>> THEN <<"/">> ELSE <<>>)

GatewayPaths ==
    {pathOf(segs, trailing) :
        segs \in UNION {[1..k -> Segments] : k \in 0..MaxSegments},
        trailing \in BOOLEAN}

\* pathname.startsWith(prefix)
startsWith(pathname, prefix) ==
    /\ Len(pathname) >= Len(prefix)
    /\ SubSeq(pathname, 1, Len(prefix)) = prefix

\* path.split('/')[k], the first at k = 0; "" when undefined or empty
segmentAt(pathname, k) ==
    LET parts == split(pathname)
    IN  IF k + 1 \in DOMAIN parts /\ parts[k + 1] # <<>>
        THEN parts[k + 1][1]
        ELSE ""

\* handleRequest without the answer to a preflight request
routeAlsoPreflight(method, pathname) ==
    IF startsWith(pathname, <<"/", "api", "/">>)
    THEN IF startsWith(pathname, <<"/", "api", "/", "services", "/">>)
            /\ method = "POST"
         THEN "action"
         ELSE "api"
    ELSE LET segments == segmentsOf(pathname)
         IN  IF segments = <<>>
             THEN "unspecified"
             ELSE IF segments[1] \in {<<".well-known">>, <<"favicon.ico">>}
                  THEN "ignored"
                  ELSE "proxy"

\* lib.ts:118-139, management.ts:31-56, router.ts:22-29 and 103-106: the
\* part of the gateway that answers the request
route(method, pathname) ==
    IF method = "OPTIONS"
    THEN "preflight"
    ELSE IF startsWith(pathname, <<"/", "api", "/">>)
         THEN IF startsWith(pathname, <<"/", "api", "/", "services", "/">>)
                 /\ method = "POST"
              THEN "action"
              ELSE "api"
         ELSE LET segments == segmentsOf(pathname)
              IN  IF segments = <<>>
                  THEN "unspecified"
                  ELSE IF segments[1] \in {<<".well-known">>, <<"favicon.ico">>}
                       THEN "ignored"
                       ELSE "proxy"

\* the name of a service as the model has it: "a", or "x" for any other
serviceOf(segment) == IF segment = "a" THEN "a" ELSE "x"

\* the gateway's own answer, kept with the management actions
answered(method, response) ==
    Append(mgmt, [NewAction("", "") EXCEPT !.method = method, !.pc = "done",
                                           !.response = response])

\* the router's own answer, kept with the requests
refused(name, response) ==
    Append(requests, [NewRequest(name) EXCEPT !.pc = "done",
                                              !.response = response])

\* the request `url` arrives: handleRequest up to its first suspension
GatewayRequest ==
    /\ url.pc = "new"
    /\ LET kind == route(url.method, url.pathname)
           name == segmentAt(url.pathname, 3)
       IN  CASE kind = "preflight" ->
                  /\ Handlers < MaxHandlers
                  /\ mgmt' = answered(url.method, 200)
                  /\ UNCHANGED <<services, config, now, pm2, requests, cleanups,
                                 probes, healthRuns, lastProbe, url, gateway,
                                 shutdowns, regCalls>>
             [] kind = "api" ->
                  /\ Handlers < MaxHandlers
                  /\ mgmt' = answered(url.method,
                                      IF url.method = "GET"
                                         /\ url.pathname = <<"/", "api", "/", "services">>
                                      THEN 200
                                      ELSE 404)
                  /\ UNCHANGED <<services, config, now, pm2, requests, cleanups,
                                 probes, healthRuns, lastProbe, url, gateway,
                                 shutdowns, regCalls>>
             [] kind = "action" ->
                  IF name = ""
                  THEN /\ Handlers < MaxHandlers
                       /\ mgmt' = answered(url.method, 400)
                       /\ UNCHANGED <<services, config, now, pm2, requests,
                                      cleanups, probes, healthRuns, lastProbe,
                                      url, gateway, shutdowns, regCalls>>
                  ELSE ActionArrives(serviceOf(name),
                                     IF segmentAt(url.pathname, 4) = "start"
                                     THEN "start"
                                     ELSE "bogus")
             [] kind = "unspecified" ->
                  /\ Handlers < MaxHandlers
                  /\ requests' = refused("", 404)
                  /\ UNCHANGED <<services, config, now, pm2, mgmt, cleanups,
                                 probes, healthRuns, lastProbe, url, gateway,
                                 shutdowns, regCalls>>
             [] kind = "ignored" ->
                  /\ Handlers < MaxHandlers
                  /\ requests' = refused(segmentsOf(url.pathname)[1][1], 503)
                  /\ UNCHANGED <<services, config, now, pm2, mgmt, cleanups,
                                 probes, healthRuns, lastProbe, url, gateway,
                                 shutdowns, regCalls>>
             [] OTHER ->
                  RequestArrives(serviceOf(segmentsOf(url.pathname)[1][1]))

\* the gateway after its start and the request it is to receive
InitGateway ==
    /\ config = ConfigFile({"a"})
    /\ services = registerAll(<<>>, config, <<"a", "b">>)
    /\ pm2 = [n \in Names |-> NoCalls]
    /\ Idle
    /\ url \in {[pc |-> "new", method |-> m, pathname |-> p, query |-> "",
                 target |-> <<>>] : m \in Methods, p \in GatewayPaths}

-----------------------------------------------------------------------------
(* ActivityMonitor.start and stop: the interval timers.  `gateway` carries  *)
(* the monitor's two handles, the timers set and not cleared, and how many  *)
(* timers and starts there have been.                                       *)

\* the most calls of ActivityMonitor.start
MaxStarts == 2

\* a monitor constructed and not started over a running registry
MonitorNew ==
    [timers |-> FALSE, connected |-> TRUE, disconnects |-> 0, exited |-> FALSE,
     cleanupInterval |-> Undefined, healthCheckInterval |-> Undefined,
     live |-> {}, made |-> 0, starts |-> 0, stopped |-> FALSE]

\* setInterval: a new timer of the given loop
setInterval(live, id, loop) == live \cup {[id |-> id, loop |-> loop]}

\* clearInterval: the timer of that handle is no longer live
clearInterval(live, handle) == {t \in live : t.id # handle}

\* ActivityMonitor.start(): both handles are assigned new timers
MonitorStart ==
    /\ gateway.starts < MaxStarts
    /\ LET c == gateway.made + 1
           h == gateway.made + 2
       IN  gateway' = [gateway EXCEPT
                         !.live = setInterval(setInterval(@, c, "cleanup"),
                                              h, "health"),
                         !.cleanupInterval = c,
                         !.healthCheckInterval = h,
                         !.made = h,
                         !.starts = @ + 1,
                         !.timers = TRUE,
                         !.stopped = FALSE]
    /\ UNCHANGED <<services, config, now, pm2, requests, mgmt, cleanups, probes,
                   healthRuns, lastProbe, url, shutdowns, regCalls>>

\* ActivityMonitor.stop(): the timers of the two handles are cleared
MonitorStop ==
    /\ LET afterCleanup ==
               IF gateway.cleanupInterval # Undefined
               THEN clearInterval(gateway.live, gateway.cleanupInterval)
               ELSE gateway.live
           afterHealth ==
               IF gateway.healthCheckInterval # Undefined
               THEN clearInterval(afterCleanup, gateway.healthCheckInterval)
               ELSE afterCleanup
       IN  gateway' = [gateway EXCEPT
                         !.live = afterHealth,
                         !.cleanupInterval = Undefined,
                         !.healthCheckInterval = Undefined,
                         !.timers = afterHealth # {},
                         !.stopped = TRUE]
    /\ UNCHANGED <<services, config, now, pm2, requests, mgmt, cleanups, probes,
                   healthRuns, lastProbe, url, shutdowns, regCalls>>

\* a live cleanup timer fires
CleanupFires ==
    /\ \E t \in gateway.live : t.loop = "cleanup"
    /\ CleanupStarts

\* a live health timer fires
HealthFires ==
    /\ \E t \in gateway.live : t.loop = "health"
    /\ HealthStarts

InitMonitor ==
    /\ Warm
    /\ now = 0
    /\ requests = <<>>
    /\ mgmt = <<>>
    /\ cleanups = <<>>
    /\ probes = [n \in ServiceNames |-> 0]
    /\ healthRuns = 0
    /\ lastProbe = "none"
    /\ gateway = MonitorNew
    /\ shutdowns = <<>>
    /\ regCalls = <<>>
    /\ url = NoUrl

-----------------------------------------------------------------------------
(* ConfigManager: reloads of the file, updateConfig and the subscribers.    *)
(* `gateway` carries the manager's callbacks; every change tried is kept in *)
(* regCalls with its input and the calls of the subscribers it made.        *)

\* the most subscribers of the configuration
MaxSubscribers == 2

\* a subscriber returns or throws
Subscribers == {"returns", "throws"}

\* a timeout the schema accepts: left out, or at least the minimum
validTimeout(t) == t = Undefined \/ t >= MinTimeout

\* ConfigSchema.parse accepts the value
validConfig(raw) ==
    /\ validTimeout(raw.global.defaultTimeout)
    /\ \A n \in DOMAIN raw.services : validTimeout(raw.services[n].timeout)

\* what the file may hold: text that is JSON or not, and its value
WatchedFiles ==
    {[text |-> x, value |-> [ConfigFile({"a", "b"}) EXCEPT !.services["a"].timeout = t]] :
        x \in {"json", "garbage"}, t \in {Undefined, 0, MinTimeout, MinTimeout + 1}}

\* loadConfig returns for this file: JSON.parse and ConfigSchema.parse pass
loads(file) == file.text = "json" /\ validConfig(file.value)

\* the arguments of updateConfig: any of the two keys, valid or not
Updates ==
    {[k \in keys |-> IF k = "global"
                     THEN [defaultTimeout |-> d]
                     ELSE [n \in {"a"} |-> ServiceConfig(n, t)]] :
        keys \in SUBSET {"global", "services"},
        d \in {0, MinTimeout + 1},
        t \in {0, MinTimeout + 2}}

\* { ...this.config, ...updates }
merge(cfg, updates) ==
    [k \in DOMAIN cfg |-> IF k \in DOMAIN updates THEN updates[k] ELSE cfg[k]]

\* notifyCallbacks that a throwing subscriber ends
notifyCallbacksUntilThrow(callbacks, snapshot) ==
    LET first == IF \E i \in DOMAIN callbacks : callbacks[i] = "throws"
                 THEN CHOOSE i \in DOMAIN callbacks :
                        /\ callbacks[i] = "throws"
                        /\ \A j \in 1..(i - 1) : callbacks[j] # "throws"
                 ELSE Len(callbacks)
    IN  [i \in 1..first |-> [subscriber |-> i, snapshot |-> snapshot,
                             threw |-> callbacks[i] = "throws"]]

\* ConfigManager.notifyCallbacks: the calls made, in order; what a
\* subscriber throws is caught and logged
notifyCallbacks(callbacks, snapshot) ==
    [i \in DOMAIN callbacks |-> [subscriber |-> i, snapshot |-> snapshot,
                                 threw |-> callbacks[i] = "throws"]]

\* the manager of a gateway that has started, nobody subscribed
ManagerNew ==
    [timers |-> TRUE, connected |-> TRUE, disconnects |-> 0, exited |-> FALSE,
     callbacks |-> <<>>]

\* ConfigManager.onConfigChange(callback)
OnConfigChange(callback) ==
    /\ Len(gateway.callbacks) < MaxSubscribers
    /\ gateway' = [gateway EXCEPT !.callbacks = Append(@, callback)]
    /\ UNCHANGED <<services, config, now, pm2, requests, mgmt, cleanups, probes,
                   healthRuns, lastProbe, url, shutdowns, regCalls>>

\* the callback of watchFile: the file has changed
FileChanged(file) ==
    /\ Handlers < MaxHandlers
    /\ IF loads(file)
       THEN /\ config' = loadConfig(file.value)
            /\ regCalls' = Append(regCalls,
                  [op |-> "reload", input |-> file, threw |-> FALSE,
                   invoked |-> notifyCallbacks(gateway.callbacks,
                                               loadConfig(file.value))])
       ELSE /\ config' = config
            /\ regCalls' = Append(regCalls,
                  [op |-> "reload", input |-> file, threw |-> FALSE,
                   invoked |-> <<>>])
    /\ UNCHANGED <<services, now, pm2, requests, mgmt, cleanups, probes,
                   healthRuns, lastProbe, url, gateway, shutdowns>>

\* ConfigManager.updateConfig(updates)
UpdateConfig(updates) ==
    /\ Handlers < MaxHandlers
    /\ LET merged == merge(config, updates)
       IN  IF validConfig(merged)
           THEN /\ config' = loadConfig(merged)
                /\ regCalls' = Append(regCalls,
                      [op |-> "update", input |-> updates, threw |-> FALSE,
                       invoked |-> notifyCallbacks(gateway.callbacks,
                                                   loadConfig(merged))])
           ELSE /\ config' = config
                /\ regCalls' = Append(regCalls,
                      [op |-> "update", input |-> updates, threw |-> TRUE,
                       invoked |-> <<>>])
    /\ UNCHANGED <<services, now, pm2, requests, mgmt, cleanups, probes,
                   healthRuns, lastProbe, url, gateway, shutdowns>>

InitConfig ==
    /\ config = ConfigFile({"a", "b"})
    /\ services = registerAll(<<>>, config, <<"a", "b">>)
    /\ pm2 = [n \in Names |-> NoCalls]
    /\ now = 0
    /\ requests = <<>>
    /\ mgmt = <<>>
    /\ cleanups = <<>>
    /\ probes = [n \in ServiceNames |-> 0]
    /\ healthRuns = 0
    /\ lastProbe = "none"
    /\ gateway = ManagerNew
    /\ shutdowns = <<>>
    /\ regCalls = <<>>
    /\ url = NoUrl

-----------------------------------------------------------------------------
(* Specifications *)

\* the steps of a gateway in which every configured service is registered
NextWarm ==
    \/ \E n \in Names : RequestArrives(n)
    \/ \E r \in DOMAIN requests, ok \in BOOLEAN : RequestStartReturns(r, ok)
    \/ \E r \in DOMAIN requests : RequestSettled(r)
    \/ \E r \in DOMAIN requests : RequestForwards(r)
    \/ \E r \in DOMAIN requests, o \in {"response", "timeout", "error"} :
            RequestFetchEnds(r, o)
    \/ \E n \in Names, a \in Actions : ActionArrives(n, a)
    \/ \E m \in DOMAIN mgmt, ok \in BOOLEAN : ActionStartReturns(m, ok)
    \/ \E m \in DOMAIN mgmt, ok \in BOOLEAN : ActionStopReturns(m, ok)
    \/ \E m \in DOMAIN mgmt : ActionRestartDelayEnds(m)
    \/ \E m \in DOMAIN mgmt : ActionProbeEnds(m)
    \/ CleanupStarts
    \/ \E c \in DOMAIN cleanups, ok \in BOOLEAN : CleanupStopReturns(c, ok)
    \/ HealthStarts
    \/ \E n \in ServiceNames, o \in ProbeOutcomes : HealthProbeEnds(n, o)
    \/ \E file \in ConfigFiles : ConfigReloads(file)
    \/ Tick

Next ==
    \/ \E r \in DOMAIN requests : RequestRegistered(r)
    \/ NextWarm

\* the gateway from its start
Spec == Init /\ [][Next]_vars

\* the gateway from the warm state; no reload adds a service there, so that
\* no request has to register one
SpecWarm == InitWarm /\ [][NextWarm]_vars

\* the upstream URL of one request, for every pathname and query
SpecUrl == InitUrl /\ [][UrlForwards]_vars

\* the steps of a gateway whose registry also receives registerService calls
NextRegister ==
    \/ \E n \in ServiceNames, cfg \in RegisterConfigs : RegisterCalled(n, cfg)
    \/ \E n \in ServiceNames : RequestArrives(n)
    \/ \E r \in DOMAIN requests, ok \in BOOLEAN : RequestStartReturns(r, ok)
    \/ \E r \in DOMAIN requests : RequestSettled(r)
    \/ \E r \in DOMAIN requests : RequestForwards(r)
    \/ \E r \in DOMAIN requests : RequestFetchEnds(r, "response")
    \/ \E n \in ServiceNames, a \in {"start", "stop"} : ActionArrives(n, a)
    \/ \E m \in DOMAIN mgmt, ok \in BOOLEAN : ActionStartReturns(m, ok)
    \/ \E m \in DOMAIN mgmt, ok \in BOOLEAN : ActionStopReturns(m, ok)
    \/ Tick

SpecRegister == Init /\ [][NextRegister]_vars

\* the management API of the warm gateway, by POST and by GET
NextApi ==
    \/ \E n \in Names, a \in Actions : ActionArrives(n, a)
    \/ \E n \in Names, a \in Actions : ServiceGetArrives(n, a)
    \/ \E m \in DOMAIN mgmt, ok \in BOOLEAN : ActionStartReturns(m, ok)
    \/ \E m \in DOMAIN mgmt, ok \in BOOLEAN : ActionStopReturns(m, ok)
    \/ \E m \in DOMAIN mgmt : ActionRestartDelayEnds(m)
    \/ \E m \in DOMAIN mgmt : ActionProbeEnds(m)
    \/ Tick

SpecApi == InitWarm /\ [][NextApi]_vars

\* requests and cleanup runs of a gateway whose file omits a timeout
NextDefault ==
    \/ \E n \in ServiceNames : RequestArrives(n)
    \/ \E r \in DOMAIN requests, ok \in BOOLEAN : RequestStartReturns(r, ok)
    \/ \E r \in DOMAIN requests : RequestSettled(r)
    \/ \E r \in DOMAIN requests : RequestForwards(r)
    \/ \E r \in DOMAIN requests : RequestFetchEnds(r, "response")
    \/ CleanupStarts
    \/ \E c \in DOMAIN cleanups, ok \in BOOLEAN : CleanupStopReturns(c, ok)
    \/ Tick

SpecDefault == InitDefault /\ [][NextDefault]_vars

\* the steps of a gateway that is shut down by signals: the timers fire
\* while they are set, and nothing runs once the process has exited
NextShutdown ==
    \/ Signal
    \/ \E s \in DOMAIN shutdowns, n \in ServiceNames, ok \in BOOLEAN :
            ShutdownStopReturns(s, n, ok)
    \/ \E s \in DOMAIN shutdowns, ok \in BOOLEAN : ShutdownDisconnected(s, ok)
    \/ ~gateway.exited /\ \E n \in ServiceNames : RequestArrives(n)
    \/ ~gateway.exited /\ \E r \in DOMAIN requests, ok \in BOOLEAN :
                              RequestStartReturns(r, ok)
    \/ ~gateway.exited /\ \E r \in DOMAIN requests : RequestSettled(r)
    \/ ~gateway.exited /\ \E r \in DOMAIN requests : RequestForwards(r)
    \/ ~gateway.exited /\ \E r \in DOMAIN requests : RequestFetchEnds(r, "response")
    \/ ~gateway.exited /\ \E n \in ServiceNames : ActionArrives(n, "stop")
    \/ ~gateway.exited /\ \E m \in DOMAIN mgmt, ok \in BOOLEAN :
                              ActionStopReturns(m, ok)
    \/ ~gateway.exited /\ gateway.timers /\ CleanupStarts
    \/ ~gateway.exited /\ \E c \in DOMAIN cleanups, ok \in BOOLEAN :
                              CleanupStopReturns(c, ok)
    \/ ~gateway.exited /\ gateway.timers /\ HealthStarts
    \/ ~gateway.exited /\ \E n \in ServiceNames, o \in ProbeOutcomes :
                              HealthProbeEnds(n, o)
    \/ ~gateway.exited /\ Tick

\* the warm gateway up to its exit
SpecShutdown == InitWarm /\ [][NextShutdown]_vars

\* the gateway up to its exit, with the health action of the management API
NextHealth ==
    \/ NextShutdown
    \/ ~gateway.exited /\ \E n \in Names : ActionArrives(n, "health")
    \/ ~gateway.exited /\ \E m \in DOMAIN mgmt : ActionProbeEnds(m)

SpecHealth == InitWarm /\ [][NextHealth]_vars

\* the gateway from its start up to its exit
NextLifetime ==
    \/ ~gateway.exited /\ Next
    \/ Signal
    \/ \E s \in DOMAIN shutdowns, n \in ServiceNames, ok \in BOOLEAN :
            ShutdownStopReturns(s, n, ok)
    \/ \E s \in DOMAIN shutdowns, ok \in BOOLEAN : ShutdownDisconnected(s, ok)

SpecLifetime == Init /\ [][NextLifetime]_vars

\* the configurations a changed file may hold for the warm gateway: the
\* timeout of "a" is the one it was registered with or a longer one
ReloadFiles ==
    {[ConfigFile({"a", "b"}) EXCEPT !.services["a"].timeout = t] :
        t \in {MinTimeout, MinTimeout + 1, MinTimeout + 2}}

\* requests and cleanup runs of a gateway whose file changes the settings of
\* a registered service
NextReload ==
    \/ \E file \in ReloadFiles : ConfigReloads(file)
    \/ \E n \in ServiceNames : RequestArrives(n)
    \/ \E r \in DOMAIN requests, ok \in BOOLEAN : RequestStartReturns(r, ok)
    \/ \E r \in DOMAIN requests : RequestSettled(r)
    \/ \E r \in DOMAIN requests : RequestForwards(r)
    \/ \E r \in DOMAIN requests : RequestFetchEnds(r, "response")
    \/ CleanupStarts
    \/ \E c \in DOMAIN cleanups, ok \in BOOLEAN : CleanupStopReturns(c, ok)
    \/ Tick

SpecReload == InitWarm /\ [][NextReload]_vars

\* the warm gateway with requests, starts and stops, its registry queried
\* for inactive services
NextInactive ==
    \/ \E timeoutMs \in QueryTimeouts : InactiveQueried(timeoutMs)
    \/ \E n \in ServiceNames : RequestArrives(n)
    \/ \E r \in DOMAIN requests, ok \in BOOLEAN : RequestStartReturns(r, ok)
    \/ \E r \in DOMAIN requests : RequestSettled(r)
    \/ \E r \in DOMAIN requests : RequestForwards(r)
    \/ \E r \in DOMAIN requests : RequestFetchEnds(r, "response")
    \/ \E n \in ServiceNames, a \in {"start", "stop"} : ActionArrives(n, a)
    \/ \E m \in DOMAIN mgmt, ok \in BOOLEAN : ActionStartReturns(m, ok)
    \/ \E m \in DOMAIN mgmt, ok \in BOOLEAN : ActionStopReturns(m, ok)
    \/ Tick

SpecInactive == InitWarm /\ [][NextInactive]_vars

\* a request is about to resume from an await on a promise that is already
\* settled (router.ts:32 after ensureServiceRunning returned): it resumes
\* before any other event is delivered
resuming == \E r \in DOMAIN requests : requests[r].pc = "ensured"

\* the steps of the warm gateway with that order of resumption kept: while
\* a request is resuming, no other handler takes a step
NextRouter ==
    \/ \E r \in DOMAIN requests : RequestForwards(r)
    \/ ~resuming /\ \E n \in Names : RequestArrives(n)
    \/ ~resuming /\ \E r \in DOMAIN requests, ok \in BOOLEAN :
                        RequestStartReturns(r, ok)
    \/ ~resuming /\ \E r \in DOMAIN requests : RequestSettled(r)
    \/ ~resuming /\ \E r \in DOMAIN requests,
                       o \in {"response", "timeout", "error"} :
                        RequestFetchEnds(r, o)
    \/ ~resuming /\ \E n \in ServiceNames, a \in {"start", "stop"} :
                        ActionArrives(n, a)
    \/ ~resuming /\ \E m \in DOMAIN mgmt, ok \in BOOLEAN : ActionStartReturns(m, ok)
    \/ ~resuming /\ \E m \in DOMAIN mgmt, ok \in BOOLEAN : ActionStopReturns(m, ok)
    \/ ~resuming /\ CleanupStarts
    \/ ~resuming /\ \E c \in DOMAIN cleanups, ok \in BOOLEAN :
                        CleanupStopReturns(c, ok)
    \/ ~resuming /\ Tick

SpecRouter == InitWarm /\ [][NextRouter]_vars

\* every call of pm2.start and pm2.stop returns: the handler that awaits it
\* takes its next step
Returns ==
    /\ \A r \in 1..MaxHandlers :
          WF_vars(r \in DOMAIN requests
                    /\ \E ok \in BOOLEAN : RequestStartReturns(r, ok))
    /\ \A m \in 1..MaxHandlers :
          /\ WF_vars(m \in DOMAIN mgmt
                       /\ \E ok \in BOOLEAN : ActionStartReturns(m, ok))
          /\ WF_vars(m \in DOMAIN mgmt
                       /\ \E ok \in BOOLEAN : ActionStopReturns(m, ok))
    /\ \A c \in 1..MaxHandlers :
          WF_vars(c \in DOMAIN cleanups
                    /\ \E ok \in BOOLEAN : CleanupStopReturns(c, ok))

\* the warm gateway with a supervisor that answers every call
SpecLive == InitWarm /\ [][NextWarm]_vars /\ Returns

\* the gateway receiving one request, once or again, and what follows
NextGateway ==
    \/ GatewayRequest
    \/ \E r \in DOMAIN requests, ok \in BOOLEAN : RequestStartReturns(r, ok)
    \/ \E r \in DOMAIN requests : RequestSettled(r)
    \/ \E r \in DOMAIN requests : RequestForwards(r)
    \/ \E r \in DOMAIN requests : RequestFetchEnds(r, "response")
    \/ \E m \in DOMAIN mgmt, ok \in BOOLEAN : ActionStartReturns(m, ok)

SpecGateway == InitGateway /\ [][NextGateway]_vars

\* a monitor started and stopped in any order, its timers firing in between
NextMonitor ==
    \/ MonitorStart
    \/ MonitorStop
    \/ CleanupFires
    \/ HealthFires
    \/ \E c \in DOMAIN cleanups, ok \in BOOLEAN : CleanupStopReturns(c, ok)
    \/ \E n \in ServiceNames, o \in ProbeOutcomes : HealthProbeEnds(n, o)
    \/ Tick

SpecMonitor == InitMonitor /\ [][NextMonitor]_vars

\* subscriptions and changes of the configuration in any order
NextConfig ==
    \/ \E callback \in Subscribers : OnConfigChange(callback)
    \/ \E file \in WatchedFiles : FileChanged(file)
    \/ \E updates \in Updates : UpdateConfig(updates)

SpecConfig == InitConfig /\ [][NextConfig]_vars

-----------------------------------------------------------------------------
(* Properties *)

status(name) == getService(services, name).status

\* the timeout of the configuration the record was registered with
timeoutOf(name) == getService(services, name).config.timeout

\* this step is the arrival of a management action of `actions` for `name`
ActionCalled(name, actions) ==
    /\ Len(mgmt') = Len(mgmt) + 1
    /\ mgmt'[Len(mgmt')].name = name
    /\ mgmt'[Len(mgmt')].action \in actions

\* this step is the arrival of a request for `name`
RequestCalled(name) ==
    /\ Len(requests') = Len(requests) + 1
    /\ requests'[Len(requests')].name = name

\* C1: concurrent requests for a service that is absent or stopped cause
\* exactly one pm2.start for it: as long as no start of the service has
\* failed and no stop was issued for it, pm2.start was called at most once,
\* and it was called once a request for it is past its startService call
C1_OneStartForConcurrentRequests ==
    \A n \in ServiceNames :
        /\ (pm2[n].stops = 0 /\ pm2[n].startsFailed = 0) => pm2[n].starts <= 1
        /\ \A r \in DOMAIN requests :
              (requests[r].name = n
                 /\ requests[r].pc \in {"pm2.start", "settle", "ensured", "fetch"})
              => pm2[n].starts >= 1

\* two requests for "b", which had no record, are both forwarded after one start
C1_Witness ==
    /\ Len(requests) = 2
    /\ \A r \in DOMAIN requests :
          requests[r].name = "b" /\ requests[r].pc = "fetch"
    /\ pm2["b"].starts = 1
    /\ pm2["b"].stops = 0

\* C2: a request is forwarded only while the record is running
C2_ForwardsOnlyToRunning ==
    \A r \in DOMAIN requests : requests[r].forwardedAs \in {"none", "running"}

\* C3: for one name, at most one pm2 call (start or stop) is in flight
C3_StartStopSerialized ==
    \A n \in ServiceNames : pm2[n].startsInFlight + pm2[n].stopsInFlight <= 1

\* C4 as stated: a cleanup run calls stopService on every record that was
\* running and past its timeout when the run began, and on no running record
\* within its timeout
C4_DueWhenRunBeginsIsStopped ==
    \A c \in DOMAIN cleanups :
        /\ cleanups[c].pc = "done" => cleanups[c].due \subseteq cleanups[c].stopped
        /\ \A v \in cleanups[c].seen :
              (v.status = "running" /\ v.at - v.lastActivity <= timeoutOf(v.name))
              => v.name \notin cleanups[c].stopped

\* C4 as amended: a cleanup run calls stopService on a record exactly when
\* the record is running and past its timeout at the moment the loop
\* reaches it
C4_StoppedIffInactiveWhenReached ==
    \A c \in DOMAIN cleanups :
        \A v \in cleanups[c].seen :
            v.name \in cleanups[c].stopped
            <=> (v.status = "running" /\ v.at - v.lastActivity > timeoutOf(v.name))

\* a run stopped "a" and passed over "b", which was running and idle for
\* exactly its timeout
C4_Witness ==
    \E c \in DOMAIN cleanups :
        /\ cleanups[c].pc = "done"
        /\ cleanups[c].stopped = {"a"}
        /\ \E v \in cleanups[c].seen :
              /\ v.name = "b"
              /\ v.status = "running"
              /\ v.at - v.lastActivity = timeoutOf("b")

\* C5: a forwarded request refreshes lastActivity and counts, and a cleanup
\* run stops a service only if it was started, and last had a request
\* forwarded to it, longer ago than its timeout
C5_ActiveServiceIsKept ==
    /\ \A r \in DOMAIN requests :
          requests[r].at # Undefined =>
              /\ getService(services, requests[r].name).lastActivity >= requests[r].at
              /\ getService(services, requests[r].name).requestCount >= 1
    /\ \A c \in DOMAIN cleanups :
          \A v \in cleanups[c].seen :
              v.name \in cleanups[c].stopped =>
                  /\ v.startTime # Undefined
                  /\ v.at - v.startTime > timeoutOf(v.name)
                  /\ v.lastRequest # Undefined =>
                        v.at - v.lastRequest > timeoutOf(v.name)

\* a run passed over "a", which had been running for longer than its
\* timeout and had a request forwarded to it within the timeout
C5_Witness ==
    \E c \in DOMAIN cleanups :
        /\ cleanups[c].pc = "done"
        /\ \E v \in cleanups[c].seen :
              /\ v.name = "a"
              /\ v.status = "running"
              /\ v.name \notin cleanups[c].stopped
              /\ v.at - v.startTime > timeoutOf("a")
              /\ v.lastRequest # Undefined
              /\ v.at - v.lastRequest <= timeoutOf("a")

\* C6: stopService on a record that is stopped or stopping (the call of a
\* management stop or restart) returns normally, calls pm2 not at all and
\* changes no record
C6_StopOfStoppedIsNoOp ==
    [][\A n \in ServiceNames :
          (/\ has(services, n)
           /\ status(n) \in {"stopped", "stopping"}
           /\ ActionCalled(n, {"stop", "restart"}))
          => /\ services' = services
             /\ pm2' = pm2
             /\ \/ /\ mgmt'[Len(mgmt')].action = "stop"
                   /\ mgmt'[Len(mgmt')].pc = "done"
                   /\ mgmt'[Len(mgmt')].response = 200
                \/ /\ mgmt'[Len(mgmt')].action = "restart"
                   /\ mgmt'[Len(mgmt')].pc = "delay"]_vars

\* a second stop of "a" was answered while the first is still at pm2.stop
C6_Witness ==
    /\ Len(mgmt) = 2
    /\ \A m \in DOMAIN mgmt : mgmt[m].name = "a" /\ mgmt[m].action = "stop"
    /\ mgmt[1].pc = "pm2.stop"
    /\ mgmt[2].pc = "done"
    /\ mgmt[2].response = 200
    /\ pm2["a"].stops = 1
    /\ status("a") = "stopping"

\* C7: startService on a record that is running or starting (the call of a
\* management start, of a restart after its delay, or of a request that
\* finds the record starting) returns normally, calls pm2 not at all and
\* changes no record
C7_StartOfRunningIsNoOp ==
    [][\A n \in ServiceNames :
          /\ (/\ has(services, n)
              /\ status(n) \in {"running", "starting"}
              /\ ActionCalled(n, {"start"}))
             => /\ services' = services
                /\ pm2' = pm2
                /\ mgmt'[Len(mgmt')].pc = "done"
                /\ mgmt'[Len(mgmt')].response = 200
          /\ \A m \in DOMAIN mgmt :
                (/\ mgmt[m].pc = "delay"
                 /\ mgmt'[m].pc # "delay"
                 /\ mgmt[m].name = n
                 /\ status(n) \in {"running", "starting"})
                => /\ services' = services
                   /\ pm2' = pm2
                   /\ mgmt'[m].pc = "done"
                   /\ mgmt'[m].response = 200
          /\ (/\ has(services, n)
              /\ status(n) = "starting"
              /\ RequestCalled(n))
             => /\ services' = services
                /\ pm2' = pm2
                /\ requests'[Len(requests')].pc = "settle"]_vars

\* a management start of "a" was answered while "a" runs after its one start
C7_Witness ==
    /\ \E m \in DOMAIN mgmt :
          /\ mgmt[m].name = "a"
          /\ mgmt[m].action = "start"
          /\ mgmt[m].pc = "done"
          /\ mgmt[m].response = 200
    /\ \E r \in DOMAIN requests : requests[r].name = "a"
    /\ status("a") = "running"
    /\ getService(services, "a").startTime < now
    /\ pm2["a"].starts = 1

\* the part of the pathname after its first non-empty segment, "/" when
\* nothing is left
remainderOf(pathname) ==
    LET first == CHOOSE i \in 1..(Len(pathname) + 1) :
                    /\ i <= Len(pathname) => pathname[i] # "/"
                    /\ \A j \in 1..(i - 1) : pathname[j] = "/"
        after == CHOOSE i \in first..(Len(pathname) + 1) :
                    /\ i <= Len(pathname) => pathname[i] = "/"
                    /\ \A j \in first..(i - 1) : pathname[j] # "/"
        rest == SubSeq(pathname, after, Len(pathname))
    IN  IF rest = <<>> THEN <<"/">> ELSE rest

\* C8: the upstream URL is http://localhost:<port>, the rest of the pathname
\* after the service segment ("/" when nothing is left), a trailing slash
\* and empty segments kept, and the query of the request
C8_UpstreamUrlIsRemainder ==
    url.pc = "fetch" =>
        url.target = [host |-> "localhost",
                      port |-> getService(services,
                                          nameOf(segmentsOf(url.pathname)[1])).port,
                      path |-> remainderOf(url.pathname),
                      search |-> search(url.query)]

\* C9: a monitor probe that times out gives a result of status timeout,
\* adds exactly one to the errorCount of the service and changes nothing
\* else of the registry and nothing of the supervisor
C9_ProbeTimeoutCountsOneError ==
    [][\A n \in ServiceNames :
          HealthProbeEnds(n, "timeout") =>
              /\ lastProbe' = "timeout"
              /\ services' = [services EXCEPT
                                 ![indexOf(services, n)].errorCount = @ + 1]
              /\ pm2' = pm2]_vars

\* the probe of "a" timed out and "a" is running with one error counted
C9_Witness ==
    /\ lastProbe = "timeout"
    /\ status("a") = "running"
    /\ getService(services, "a").errorCount = 1
    /\ pm2["a"].stops = 0
    /\ healthRuns = 1

\* C10: a management start, stop or restart for a name without a record is
\* answered with an error, calls pm2 not at all and leaves the registry as
\* it was, without a record for the name
C10_ActionOnUnregisteredFails ==
    [][\A n \in Names :
          (~has(services, n) /\ ActionCalled(n, {"start", "stop", "restart"}))
          => /\ services' = services
             /\ ~has(services', n)
             /\ pm2' = pm2
             /\ mgmt'[Len(mgmt')].pc = "done"
             /\ mgmt'[Len(mgmt')].response >= 400]_vars

\* a start of "x" was answered with 500 and "x" has no record and no call
C10_Witness ==
    /\ \E m \in DOMAIN mgmt :
          /\ mgmt[m].name = "x"
          /\ mgmt[m].action = "start"
          /\ mgmt[m].pc = "done"
          /\ mgmt[m].response = 500
    /\ ~has(services, "x")
    /\ pm2["x"] = NoCalls

\* C11: a request for a name that has no record and no entry in the
\* configuration is answered 404, creates no record and calls pm2 not at all
C11_UnconfiguredNameIs404 ==
    [][\A n \in Names :
          (/\ ~has(services, n)
           /\ n \notin DOMAIN config.services
           /\ RequestCalled(n))
          => /\ requests'[Len(requests')].pc = "done"
             /\ requests'[Len(requests')].response = 404
             /\ services' = services
             /\ pm2' = pm2]_vars

\* the requests for `name` that reached the forwarding step
forwarded(name) ==
    {r \in DOMAIN requests :
        requests[r].name = name /\ requests[r].at # Undefined}

\* C12: the requestCount of a record is the number of requests for it that
\* reached the forwarding step, whatever became of their upstream call; a
\* request at or past its upstream call is among them and lastActivity is
\* not older than its forwarding; a request answered 404 or 503 is not
C12_ForwardedRequestsAreCounted ==
    /\ \A n \in ServiceNames :
          has(services, n) =>
              getService(services, n).requestCount = Cardinality(forwarded(n))
    /\ \A r \in DOMAIN requests :
          /\ (requests[r].pc = "fetch" \/ requests[r].response \in {200, 500, 504})
             => /\ r \in forwarded(requests[r].name)
                /\ getService(services, requests[r].name).lastActivity
                      >= requests[r].at
          /\ requests[r].response \in {404, 503}
             => r \notin forwarded(requests[r].name)

\* of two requests for "a", one was answered 503 and one 504, and one counts
C12_Witness ==
    /\ \E r \in DOMAIN requests :
          requests[r].name = "a" /\ requests[r].response = 503
    /\ \E r \in DOMAIN requests :
          requests[r].name = "a" /\ requests[r].response = 504
    /\ getService(services, "a").requestCount = 1

\* C13: when the upstream call times out the request is answered 504, on
\* another transport failure 500, and in both cases the registry and the
\* supervisor are left as they were
C13_UpstreamFailureKeepsStatus ==
    [][\A r \in DOMAIN requests :
          /\ RequestFetchEnds(r, "timeout")
             => /\ requests'[r].response = 504
                /\ services' = services
                /\ pm2' = pm2
          /\ RequestFetchEnds(r, "error")
             => /\ requests'[r].response = 500
                /\ services' = services
                /\ pm2' = pm2]_vars

\* one request for "a" was answered 504 and one 500, and "a" is running
\* with no error counted and no stop issued
C13_Witness ==
    /\ \E r \in DOMAIN requests :
          requests[r].name = "a" /\ requests[r].response = 504
    /\ \E r \in DOMAIN requests :
          requests[r].name = "a" /\ requests[r].response = 500
    /\ status("a") = "running"
    /\ getService(services, "a").errorCount = 0
    /\ pm2["a"].stops = 0

\* the registry with the record of `name` in status error and one more
\* error counted
failed(name) ==
    [services EXCEPT ![indexOf(services, name)].status = "error",
                     ![indexOf(services, name)].errorCount = @ + 1]

\* C14: when pm2.start fails, startService leaves the record in status
\* error with errorCount one higher and nothing else changed, and its
\* caller gets the failure (500 from the management API, 503 from the
\* router); startService on a record in status error sets it to starting
\* and calls pm2.start
C14_FailedStartIsErrorAndRetried ==
    [][/\ \A m \in DOMAIN mgmt :
             ActionStartReturns(m, FALSE)
             => /\ services' = failed(mgmt[m].name)
                /\ mgmt'[m].pc = "done"
                /\ mgmt'[m].response = 500
       /\ \A r \in DOMAIN requests :
             RequestStartReturns(r, FALSE)
             => /\ services' = failed(requests[r].name)
                /\ requests'[r].pc = "done"
                /\ requests'[r].response = 503
       /\ \A n \in ServiceNames :
             (/\ has(services, n)
              /\ status(n) = "error"
              /\ (ActionCalled(n, {"start"}) \/ RequestCalled(n)))
             => /\ services' = [services EXCEPT
                                   ![indexOf(services, n)].status = "starting"]
                /\ pm2'[n].starts = pm2[n].starts + 1
                /\ pm2'[n].startsInFlight = pm2[n].startsInFlight + 1]_vars

\* the start of "a" failed once and was tried again from status error
C14_Witness ==
    /\ status("a") = "starting"
    /\ getService(services, "a").errorCount = 1
    /\ pm2["a"].starts = 2
    /\ pm2["a"].startsFailed = 1
    /\ pm2["a"].stops = 0

\* C15: the timers are cancelled once a shutdown has begun, every record
\* that was running at the signal has stopService called on it, and
\* pm2.disconnect is called only when no stopService call of any shutdown
\* is still pending, a second signal during the first shutdown included
C15_ShutdownIsOrdered ==
    /\ shutdowns # <<>> => ~gateway.timers
    /\ \A s \in DOMAIN shutdowns : shutdowns[s].invoked = shutdowns[s].running
    /\ gateway.disconnects > 0 =>
          \A s \in DOMAIN shutdowns : shutdowns[s].pending = {}

\* C16: registerService for a name without a record appends a record in
\* status stopped with requestCount 0, errorCount 0 and the config passed;
\* for a name with a record it changes nothing in the registry, whatever
\* config is passed
C16_RegisterCreatesOnce ==
    [][\A n \in ServiceNames, cfg \in RegisterConfigs :
          RegisterCalled(n, cfg) =>
              IF has(services, n)
              THEN services' = services
              ELSE /\ Len(services') = Len(services) + 1
                   /\ SubSeq(services', 1, Len(services)) = services
                   /\ services'[Len(services')].name = n
                   /\ services'[Len(services')].config = cfg
                   /\ services'[Len(services')].status = "stopped"
                   /\ services'[Len(services')].requestCount = 0
                   /\ services'[Len(services')].errorCount = 0]_vars

\* registerService was called for "a" with another config while "a" had
\* served a request, and "a" still runs with its config and its count
C16_Witness ==
    /\ \E k \in DOMAIN regCalls :
          /\ regCalls[k].name = "a"
          /\ regCalls[k].existed
          /\ regCalls[k].config # getService(services, "a").config
    /\ status("a") = "running"
    /\ getService(services, "a").requestCount = 1

\* C17: GET /api/services/<name>/health is answered with the result of a
\* health probe, not with 404
C17_GetHealthRunsProbe ==
    \A m \in DOMAIN mgmt :
        (/\ mgmt[m].method = "GET"
         /\ mgmt[m].action = "health"
         /\ mgmt[m].pc = "done")
        => mgmt[m].response = 200

\* C18: for "a", whose configuration omits timeout, the timeout the cleanup
\* loop applies is the defaultTimeout of the configuration: a run stops "a"
\* exactly when it finds "a" running and idle for longer than defaultTimeout
C18_OmittedTimeoutIsGlobalDefault ==
    \A c \in DOMAIN cleanups :
        \A v \in cleanups[c].seen :
            v.name = "a" =>
                (v.name \in cleanups[c].stopped
                 <=> (/\ v.status = "running"
                      /\ v.at - v.lastActivity > config.global.defaultTimeout))

\* the edges of the status of a record
StatusEdges ==
    {<<"stopped", "starting">>, <<"starting", "running">>,
     <<"running", "stopping">>, <<"stopping", "stopped">>,
     <<"starting", "error">>, <<"stopping", "error">>,
     <<"error", "starting">>}

\* C19: the status of a record changes only along the edges
\* stopped->starting, starting->running, running->stopping,
\* stopping->stopped, starting->error, stopping->error, error->starting
C19_StatusFollowsEdges ==
    [][\A n \in ServiceNames :
          (/\ has(services, n)
           /\ getService(services', n).status # getService(services, n).status)
          => <<getService(services, n).status, getService(services', n).status>>
                \in StatusEdges]_vars

\* C20: stopService on a record that is neither stopped nor stopping sets
\* status stopping in the step that issues pm2.stop; when pm2.stop succeeds
\* the record is left stopped with pid and startTime not set; when it fails
\* the record is left in status error and the caller gets the failure (500
\* from the management API)
C20_StopSetsStoppingThenStoppedOrError ==
    [][/\ \A n \in ServiceNames :
             (/\ has(services, n)
              /\ status(n) \notin {"stopped", "stopping"}
              /\ ActionCalled(n, {"stop", "restart"}))
             => /\ services' = [services EXCEPT
                                   ![indexOf(services, n)].status = "stopping"]
                /\ pm2'[n].stops = pm2[n].stops + 1
                /\ pm2'[n].stopsInFlight = pm2[n].stopsInFlight + 1
                /\ mgmt'[Len(mgmt')].pc = "pm2.stop"
       /\ \A m \in DOMAIN mgmt :
             /\ ActionStopReturns(m, TRUE)
                => /\ getService(services', mgmt[m].name).status = "stopped"
                   /\ getService(services', mgmt[m].name).pid = Undefined
                   /\ getService(services', mgmt[m].name).startTime = Undefined
                   /\ mgmt'[m].response # 500
             /\ ActionStopReturns(m, FALSE)
                => /\ getService(services', mgmt[m].name).status = "error"
                   /\ mgmt'[m].pc = "done"
                   /\ mgmt'[m].response = 500
       /\ \A c \in DOMAIN cleanups :
             /\ CleanupStopReturns(c, TRUE)
                => /\ getService(services', cleanups[c].name).status = "stopped"
                   /\ getService(services', cleanups[c].name).pid = Undefined
                   /\ getService(services', cleanups[c].name).startTime = Undefined
             /\ CleanupStopReturns(c, FALSE)
                => getService(services', cleanups[c].name).status = "error"]_vars

\* a stop of "a" succeeded and a stop of "b" failed: "a", started at tick 0,
\* is stopped without a startTime, "b" is in status error
C20_Witness ==
    /\ \E m \in DOMAIN mgmt :
          mgmt[m].name = "a" /\ mgmt[m].action = "stop" /\ mgmt[m].response = 200
    /\ \E m \in DOMAIN mgmt :
          mgmt[m].name = "b" /\ mgmt[m].action = "stop" /\ mgmt[m].response = 500
    /\ status("a") = "stopped"
    /\ getService(services, "a").startTime = Undefined
    /\ pm2["a"].stops = 1
    /\ status("b") = "error"
    /\ getService(services, "b").errorCount = 1

\* C21: in every record, startTime is set only in status running or
\* starting, and pid is set only in status running
C21_StartTimeAndPidOnlyWhileLive ==
    \A i \in DOMAIN services :
        /\ services[i].startTime # Undefined
           => services[i].status \in {"running", "starting"}
        /\ services[i].pid # Undefined => services[i].status = "running"

\* what C22 expects of a probe outcome: the status and the error of the result
classified(outcome) ==
    CASE outcome \in {"2xx", "3xx"} -> [status |-> "healthy", error |-> "none"]
      [] outcome = "5xx" -> [status |-> "unhealthy", error |-> "HTTP 5xx"]
      [] outcome = "timeout" -> [status |-> "timeout", error |-> "message"]
      [] OTHER -> [status |-> "unhealthy", error |-> "message"]

\* C22: the probe of a running service is classified by its outcome: a 2xx
\* or 3xx response is healthy, another response is unhealthy with its status
\* code as the error, a probe beyond the timeout is timeout, a refused or
\* reset connection is unhealthy
C22_ProbeOutcomeIsClassified ==
    [][\A n \in ServiceNames, o \in ProbeOutcomes :
          HealthProbeEnds(n, o) =>
              /\ lastProbe' = classified(o).status
              /\ healthCheckError(o) = classified(o).error]_vars

\* C23: a health check stops nothing: the steps of healthCheck (the health
\* timer firing, the health action of the management API and the end of its
\* probe) leave the registry and the supervisor as they were; the end of a
\* monitor probe changes at most the errorCount of the probed record; and a
\* step that issues pm2.stop is a step of a cleanup run, of a management
\* action or of a shutdown
C23_HealthCheckStopsNothing ==
    [][/\ (\/ healthRuns' # healthRuns
           \/ \E m \in DOMAIN mgmt : mgmt[m].pc = "probe" /\ mgmt'[m].pc # "probe"
           \/ \E n \in Names : ActionCalled(n, {"health"}))
          => services' = services /\ pm2' = pm2
       /\ \A n \in ServiceNames :
             probes'[n] < probes[n] =>
                 /\ pm2' = pm2
                 /\ services' = [services EXCEPT
                                    ![indexOf(services, n)].errorCount =
                                        services'[indexOf(services, n)].errorCount]
       /\ \A n \in ServiceNames :
             pm2'[n].stops # pm2[n].stops =>
                 \/ cleanups' # cleanups
                 \/ \E m \in DOMAIN mgmt' :
                       /\ mgmt'[m].name = n
                       /\ mgmt'[m].action \in {"stop", "restart"}
                       /\ mgmt'[m].pc = "pm2.stop"
                       /\ (m \in DOMAIN mgmt => mgmt[m].pc # "pm2.stop")
                 \/ shutdowns' # shutdowns]_vars

\* the monitor's probe of "a" and the health action for "a" both ended, the
\* probe unhealthy: "a" is running with one error counted and no stop issued
C23_Witness ==
    /\ healthRuns = 1
    /\ probes["a"] = 0
    /\ lastProbe = "unhealthy"
    /\ \E m \in DOMAIN mgmt :
          mgmt[m].name = "a" /\ mgmt[m].action = "health" /\ mgmt[m].pc = "done"
    /\ status("a") = "running"
    /\ getService(services, "a").errorCount = 1
    /\ pm2["a"].stops = 0

\* C24: a record, once in the registry, stays in it at its place, with its
\* name and its port, whatever step is taken: a stop, a failed start or
\* stop, a cleanup run, a shutdown, a reload of the configuration
C24_RecordsPersist ==
    [][/\ Len(services') >= Len(services)
       /\ \A i \in DOMAIN services :
             /\ services'[i].name = services[i].name
             /\ services'[i].port = services[i].port]_vars

\* "b" was registered and started by a request, dropped from the
\* configuration by a reload and stopped by a shutdown: its record is there
C24_Witness ==
    /\ has(services, "b")
    /\ "b" \notin DOMAIN config.services
    /\ status("b") = "stopped"
    /\ getService(services, "b").port = 3002
    /\ pm2["b"].stops = 1
    /\ \E s \in DOMAIN shutdowns : shutdowns[s].running = {"b"}
    /\ gateway.exited

\* the registries one call of a registry operation can make of S at this
\* moment (a call that suspends counts up to its suspension and from it)
registryOps(S) ==
    {S}
    \cup {registerService(S, n, config.services[n], now) :
             n \in DOMAIN config.services}
    \cup UNION {{startServiceBegin(S, n), startServiceResolve(S, n, now),
                 startServiceReject(S, n), stopServiceBegin(S, n),
                 stopServiceResolve(S, n), stopServiceReject(S, n),
                 updateActivity(S, n, now)} :
                    n \in {m \in ServiceNames : has(S, m)}}

\* C25: every change of the registry in one step is the work of registry
\* operations (registerService, startService, stopService, updateActivity),
\* one or two of them in a row
C25_OnlyRegistryOperationsWrite ==
    [][services' \in UNION {registryOps(T) : T \in registryOps(services)}]_vars

\* the records run c of the cleanup loop reaches in this step
reachedNow(c) ==
    cleanups'[c].seen \ (IF c \in DOMAIN cleanups THEN cleanups[c].seen ELSE {})

\* C26: after a reload that changes the timeout of a registered service the
\* cleanup loop applies the timeout of the loaded configuration: it calls
\* stopService on a record it reaches exactly when the record is running and
\* idle for longer than the timeout the configuration now gives the service
C26_CleanupUsesLoadedConfig ==
    [][\A c \in DOMAIN cleanups' :
          \A v \in reachedNow(c) :
              (cleanups'[c].pc = "pm2.stop" /\ cleanups'[c].name = v.name)
              <=> (/\ v.status = "running"
                   /\ v.at - v.lastActivity > config.services[v.name].timeout)]_vars

\* the places in `queue` of the records that are running and idle for longer
\* than their timeout now
dueIn(queue) ==
    {i \in DOMAIN queue :
        /\ status(queue[i]) = "running"
        /\ now - getService(services, queue[i]).lastActivity > timeoutOf(queue[i])}

\* C27: when the stopService call of a cleanup run fails, the run goes on in
\* the same step: it calls stopService (status stopping, pm2.stop issued) on
\* the first record left in its snapshot that is running and idle for longer
\* than its timeout, and ends only if there is none
C27_FailedStopDoesNotEndCycle ==
    [][\A c \in DOMAIN cleanups :
          (/\ cleanups[c].pc = "pm2.stop"
           /\ cleanups'[c] # cleanups[c]
           /\ getService(services', cleanups[c].name).status = "error")
          => LET queue == cleanups[c].queue
             IN  IF dueIn(queue) = {}
                 THEN /\ cleanups'[c].pc = "done"
                      /\ \A i \in DOMAIN queue :
                            pm2'[queue[i]].stops = pm2[queue[i]].stops
                 ELSE LET next == queue[CHOOSE i \in dueIn(queue) :
                                           \A j \in dueIn(queue) : i <= j]
                      IN  /\ cleanups'[c].pc = "pm2.stop"
                          /\ cleanups'[c].name = next
                          /\ next \in cleanups'[c].stopped
                          /\ getService(services', next).status = "stopping"
                          /\ pm2'[next].stops = pm2[next].stops + 1]_vars

\* one run called stopService on "a" and on "b": the stop of "a" failed and
\* the stop of "b", issued after it, succeeded
C27_Witness ==
    \E c \in DOMAIN cleanups :
        /\ cleanups[c].pc = "done"
        /\ cleanups[c].stopped = {"a", "b"}
        /\ status("a") = "error"
        /\ getService(services, "a").errorCount = 1
        /\ status("b") = "stopped"
        /\ pm2["b"].stops = 1

\* this step holds an operation on `name`: a step of a request or of a
\* management action for it, the end of a probe of it, or a stopService call
\* of a cleanup run for it that is issued or returns
touched(name) ==
    \/ \E r \in DOMAIN requests' :
          /\ requests'[r].name = name
          /\ (r \in DOMAIN requests => requests'[r] # requests[r])
    \/ \E m \in DOMAIN mgmt' :
          /\ mgmt'[m].name = name
          /\ (m \in DOMAIN mgmt => mgmt'[m] # mgmt[m])
    \/ probes'[name] < probes[name]
    \/ \E c \in DOMAIN cleanups' :
          /\ (c \in DOMAIN cleanups => cleanups'[c] # cleanups[c])
          /\ \/ /\ c \in DOMAIN cleanups
                /\ cleanups[c].pc = "pm2.stop"
                /\ cleanups[c].name = name
             \/ /\ cleanups'[c].pc = "pm2.stop"
                /\ cleanups'[c].name = name

\* C28: services are independent: the record of a service and its calls at
\* the supervisor change only in a step that holds an operation on that
\* service; and while another service is in status error, a start, a stop,
\* a request and a health run proceed for a service as they otherwise do
C28_ServicesAreIndependent ==
    [][\A n \in ServiceNames :
          /\ (\/ has(services, n) /= has(services', n)
              \/ has(services, n)
                    /\ getService(services', n) # getService(services, n)
              \/ pm2'[n] # pm2[n])
             => touched(n)
          /\ (/\ has(services, n)
              /\ \E o \in ServiceNames \ {n} :
                    has(services, o) /\ status(o) = "error")
             => /\ (status(n) \in {"stopped", "error"} /\ ActionCalled(n, {"start"}))
                   => /\ getService(services', n).status = "starting"
                      /\ pm2'[n].starts = pm2[n].starts + 1
                /\ (status(n) = "running" /\ ActionCalled(n, {"stop"}))
                   => /\ getService(services', n).status = "stopping"
                      /\ pm2'[n].stops = pm2[n].stops + 1
                /\ (status(n) = "running" /\ RequestCalled(n))
                   => requests'[Len(requests')].pc = "ensured"
                /\ (status(n) = "running" /\ healthRuns' # healthRuns)
                   => probes'[n] = probes[n] + 1]_vars

\* the stop of "a" failed and a request for "b" was forwarded after it: "b"
\* is running with that one request counted and no error
C28_Witness ==
    /\ status("a") = "error"
    /\ getService(services, "a").errorCount = 1
    /\ pm2["a"].stops = 1
    /\ \E r \in DOMAIN requests : requests[r].name = "b" /\ requests[r].pc = "fetch"
    /\ status("b") = "running"
    /\ getService(services, "b").requestCount = 1
    /\ getService(services, "b").errorCount = 0

\* management action m enters position pc in this step
enters(m, pc) ==
    /\ mgmt'[m].pc = pc
    /\ (m \in DOMAIN mgmt => mgmt[m].pc # pc)

\* C29: a restart calls startService only from its delay, which it enters
\* only when its stopService call has returned normally (at once for a
\* record that is stopped or stopping, else with pm2.stop done and the
\* record stopped); when the stop fails the restart is answered 500 in that
\* step, issues no pm2.start and takes no further step; an action that is
\* none of start, stop, restart, health is answered 400 and changes nothing
\* in the registry or at the supervisor
C29_RestartStopsThenStarts ==
    [][/\ \A m \in DOMAIN mgmt' :
             mgmt'[m].action = "restart" =>
                 /\ enters(m, "pm2.start")
                    => /\ m \in DOMAIN mgmt
                       /\ mgmt[m].pc = "delay"
                       /\ pm2'[mgmt[m].name].starts = pm2[mgmt[m].name].starts + 1
                 /\ enters(m, "delay")
                    => \/ /\ m \notin DOMAIN mgmt
                          /\ status(mgmt'[m].name) \in {"stopped", "stopping"}
                       \/ /\ m \in DOMAIN mgmt
                          /\ mgmt[m].pc = "pm2.stop"
                          /\ getService(services', mgmt[m].name).status = "stopped"
                 /\ (/\ m \in DOMAIN mgmt
                     /\ mgmt[m].pc = "pm2.stop"
                     /\ mgmt'[m].pc # "pm2.stop"
                     /\ getService(services', mgmt[m].name).status = "error")
                    => /\ mgmt'[m].pc = "done"
                       /\ mgmt'[m].response = 500
                       /\ pm2'[mgmt[m].name].starts = pm2[mgmt[m].name].starts
                 /\ (m \in DOMAIN mgmt /\ mgmt[m].pc = "done")
                    => mgmt'[m] = mgmt[m]
       /\ \A n \in Names :
             ActionCalled(n, Actions \ {"start", "stop", "restart", "health"})
             => /\ mgmt'[Len(mgmt')].pc = "done"
                /\ mgmt'[Len(mgmt')].response = 400
                /\ services' = services
                /\ pm2' = pm2]_vars

\* a restart of "a" stopped and started it again and was answered 200; a
\* restart of "b" was answered 500 when its stop failed, with no new start
C29_Witness ==
    /\ \E m \in DOMAIN mgmt :
          /\ mgmt[m].name = "a"
          /\ mgmt[m].action = "restart"
          /\ mgmt[m].response = 200
    /\ pm2["a"].stops = 1
    /\ pm2["a"].starts = 2
    /\ status("a") = "running"
    /\ \E m \in DOMAIN mgmt :
          /\ mgmt[m].name = "b"
          /\ mgmt[m].action = "restart"
          /\ mgmt[m].response = 500
    /\ status("b") = "error"
    /\ pm2["b"].starts = 1

\* C30 as stated: getInactiveServices returns exactly the records that are
\* running and idle for longer than their own configured timeout
C30_InactiveByOwnTimeout ==
    \A k \in DOMAIN regCalls :
        LET S == regCalls[k].registry
        IN  regCalls[k].result =
                {S[i].name : i \in {j \in DOMAIN S :
                    /\ S[j].status = "running"
                    /\ regCalls[k].at - S[j].lastActivity > S[j].config.timeout}}

\* C30 as amended: getInactiveServices(timeoutMs) returns exactly the
\* records that are running and idle for longer than timeoutMs, the
\* argument of the call, and so no record that is not running
C30_InactiveByArgument ==
    \A k \in DOMAIN regCalls :
        LET S == regCalls[k].registry
        IN  /\ regCalls[k].result =
                  {S[i].name : i \in {j \in DOMAIN S :
                      /\ S[j].status = "running"
                      /\ regCalls[k].at - S[j].lastActivity > regCalls[k].timeoutMs}}
            /\ \A i \in DOMAIN S :
                  S[i].status # "running" => S[i].name \notin regCalls[k].result

\* a call with the smallest timeout returned "b" alone: "b" was running and
\* idle for its own, longer timeout exactly, "a" was idle as long and stopped
C30_Witness ==
    \E k \in DOMAIN regCalls :
        LET S == regCalls[k].registry
        IN  /\ regCalls[k].timeoutMs = MinTimeout
            /\ regCalls[k].result = {"b"}
            /\ getService(S, "b").status = "running"
            /\ regCalls[k].at - getService(S, "b").lastActivity
                  = getService(S, "b").config.timeout
            /\ getService(S, "a").status = "stopped"
            /\ regCalls[k].at - getService(S, "a").lastActivity > MinTimeout

\* C31: a record in status running has had a pm2.start of its name succeed,
\* and no request is forwarded to a record that the gateway has stopped or
\* is stopping (the supervisor's stop takes effect between the call that
\* sets status stopping and the return that sets status stopped)
C31_RunningHasLiveProcess ==
    /\ \A n \in ServiceNames :
          (has(services, n) /\ status(n) = "running")
          => pm2[n].starts - pm2[n].startsInFlight - pm2[n].startsFailed >= 1
    /\ \A r \in DOMAIN requests :
          requests[r].forwardedAs \notin {"stopped", "stopping"}

\* C32: a cleanup run calls stopService on no service that has a request at
\* its upstream call, forwarded less than the proxy timeout ago
C32_CleanupSparesServiceInUse ==
    [][\A c \in DOMAIN cleanups' :
          (/\ cleanups'[c].pc = "pm2.stop"
           /\ (c \in DOMAIN cleanups => cleanups'[c] # cleanups[c]))
          => ~\E r \in DOMAIN requests :
                 /\ requests[r].name = cleanups'[c].name
                 /\ requests[r].pc = "fetch"
                 /\ now - requests[r].at < ProxyTimeout]_vars

\* C33: the step in which a shutdown begins issues pm2.stop for every record
\* that is starting or running, or in status error with no start of it
\* failed (so after a failed stop), so that none is left for the exit
C33_ShutdownStopsEveryLaunched ==
    [][Len(shutdowns') > Len(shutdowns) =>
          \A n \in ServiceNames :
              (/\ has(services, n)
               /\ \/ status(n) \in {"starting", "running"}
                  \/ status(n) = "error" /\ pm2[n].startsFailed = 0)
              => pm2'[n].stops = pm2[n].stops + 1]_vars

\* C34: with every pm2 call returning, a record in status starting comes to
\* status running or error, and a record in status stopping comes to status
\* stopped or error
C34_StartingAndStoppingEnd ==
    \A n \in ServiceNames :
        /\ (status(n) = "starting") ~> (status(n) \in {"running", "error"})
        /\ (status(n) = "stopping") ~> (status(n) \in {"stopped", "error"})

\* the stop of "a" has failed and left it in status error; "b" was stopped
\* and started again by a restart and is running
C34_Witness ==
    /\ status("a") = "error"
    /\ pm2["a"].stops = 1
    /\ pm2["a"].stopsInFlight = 0
    /\ pm2["a"].startsFailed = 0
    /\ status("b") = "running"
    /\ pm2["b"].stops = 1
    /\ pm2["b"].starts = 2
    /\ pm2["b"].startsInFlight = 0

\* C35: in the step in which the pm2.start issued for a request fails, the
\* request is answered 503 without having been forwarded, the record is left
\* in status error with errorCount one higher and requestCount and
\* lastActivity as they were, and no other record changes
C35_FailedStartForRequestIs503 ==
    [][\A r \in DOMAIN requests :
          (/\ requests[r].pc = "pm2.start"
           /\ requests'[r] # requests[r]
           /\ pm2'[requests[r].name].startsFailed
                 > pm2[requests[r].name].startsFailed)
          => LET name == requests[r].name
                 before == getService(services, name)
                 after == getService(services', name)
             IN  /\ requests'[r].pc = "done"
                 /\ requests'[r].response = 503
                 /\ requests'[r].forwardedAs = "none"
                 /\ requests'[r].at = Undefined
                 /\ after.status = "error"
                 /\ after.errorCount = before.errorCount + 1
                 /\ after.requestCount = before.requestCount
                 /\ after.lastActivity = before.lastActivity
                 /\ \A n \in ServiceNames \ {name} :
                       has(services, n)
                       => getService(services', n) = getService(services, n)]_vars

\* the start made for the one request for "a" failed: the request was
\* answered 503 and "a" is in status error, with no request counted
C35_Witness ==
    /\ Len(requests) = 1
    /\ requests[1].name = "a"
    /\ requests[1].response = 503
    /\ requests[1].at = Undefined
    /\ status("a") = "error"
    /\ getService(services, "a").errorCount = 1
    /\ getService(services, "a").requestCount = 0
    /\ pm2["a"].startsFailed = 1

\* the request `url` is one the gateway does not route to the proxy: a
\* preflight request, a request under /api/ that is not a POST under
\* /api/services/, or one whose first segment is .well-known or favicon.ico
notProxied ==
    \/ url.method = "OPTIONS"
    \/ /\ startsWith(url.pathname, <<"/", "api", "/">>)
       /\ ~(/\ url.method = "POST"
            /\ startsWith(url.pathname, <<"/", "api", "/", "services", "/">>))
    \/ /\ ~startsWith(url.pathname, <<"/", "api", "/">>)
       /\ segmentsOf(url.pathname) # <<>>
       /\ segmentsOf(url.pathname)[1][1] \in {".well-known", "favicon.ico"}

\* C36: the arrival of a request that the gateway does not route to the
\* proxy leaves the registry and the supervisor as they were: no record is
\* created, no pm2.start issued, no requestCount or lastActivity changed;
\* and the request is answered in that step
C36_UnroutedRequestsTouchNothing ==
    [][(notProxied /\ Len(mgmt') + Len(requests') > Len(mgmt) + Len(requests))
          => /\ services' = services
             /\ pm2' = pm2
             /\ \A m \in DOMAIN mgmt' : m \notin DOMAIN mgmt => mgmt'[m].pc = "done"
             /\ \A r \in DOMAIN requests' :
                   r \notin DOMAIN requests => requests'[r].pc = "done"]_vars

\* GET /.well-known/a was answered 503 twice: "a" is stopped as registered,
\* with no request counted and no call at the supervisor
C36_Witness ==
    /\ url.method = "GET"
    /\ url.pathname = <<"/", ".well-known", "/", "a">>
    /\ Len(requests) = 2
    /\ \A r \in DOMAIN requests : requests[r].response = 503
    /\ status("a") = "stopped"
    /\ getService(services, "a").requestCount = 0
    /\ pm2["a"] = NoCalls

\* C37: once ActivityMonitor.stop() has returned, and until start() is
\* called again, no cleanup cycle and no health cycle begins, whatever calls
\* of start() and stop() came before
C37_NoCycleAfterStop ==
    [][gateway.stopped => /\ Len(cleanups') = Len(cleanups)
                          /\ healthRuns' = healthRuns]_vars

\* the input of a change passes validation, given the configuration it meets
passes(call, cfg) ==
    IF call.op = "reload"
    THEN call.input.text = "json" /\ validConfig(call.input.value)
    ELSE validConfig(merge(cfg, call.input))

\* C38: a change of the configuration whose input fails validation leaves
\* getConfig's snapshot as it was and calls no subscriber; a change whose
\* input passes calls every subscriber, once and in order, with the snapshot
\* that getConfig returns afterwards, also after a subscriber that throws
C38_FailedChangeKeepsConfig ==
    [][Len(regCalls') > Len(regCalls) =>
         LET call == regCalls'[Len(regCalls')]
         IN  IF passes(call, config)
             THEN /\ Len(call.invoked) = Len(gateway.callbacks)
                  /\ \A i \in DOMAIN gateway.callbacks :
                        /\ call.invoked[i].subscriber = i
                        /\ call.invoked[i].snapshot = config'
             ELSE /\ config' = config
                  /\ call.invoked = <<>>]_vars

\* a reload of a file with a timeout under the minimum met two subscribers,
\* called neither and kept the configuration; then an update that passes
\* called both though the first throws
C38_Witness ==
    /\ Len(regCalls) = 2
    /\ gateway.callbacks = <<"throws", "returns">>
    /\ regCalls[1].op = "reload"
    /\ regCalls[1].input.text = "json"
    /\ regCalls[1].input.value.services["a"].timeout = 0
    /\ regCalls[1].invoked = <<>>
    /\ regCalls[2].op = "update"
    /\ ~regCalls[2].threw
    /\ Len(regCalls[2].invoked) = 2
    /\ regCalls[2].invoked[1].threw
    /\ regCalls[2].invoked[2].snapshot = config
    /\ config # ConfigFile({"a", "b"})

====
